---- MODULE Spec2Model ----
(***************************************************************************)
(* The request-processing pipelines of tmdb-react's edge proxy handlers.   *)
(*                                                                         *)
(* Every file of the repository is an independent deployment of the same   *)
(* idea, so a behaviour of this model is the life of ONE program (chosen   *)
(* in Init): requests arrive, run through the program's handler and are    *)
(* answered.  The chain-of-responsibility handler of src/api/index.js      *)
(* (lines 1-363) is modelled handler by handler; the single-function       *)
(* handlers are modelled by their synchronous part and their continuation  *)
(* after the upstream fetch.                                               *)
(* MiddlewareChain.execute (src/api/MiddlewareChain.js) is also run on its *)
(* own, iteration by iteration, in the variable exec (SpecExecute).        *)
(*                                                                         *)
(* Strings that the code only compares are TLA+ strings.  URLs are         *)
(* sequences of tokens ("https", ":", "/", "/", "api", "/", "3"), so that  *)
(* string concatenation, URL parsing, resolution against a base and        *)
(* serialisation are computed, not assumed.  A JavaScript value that may   *)
(* be null is a sequence of length 0 (null) or 1 (the value).              *)
(***************************************************************************)
EXTENDS Integers, Sequences, FiniteSets, TLC

VARIABLES program, cache, req, exec

vars == <<program, cache, req, exec>>

\* ------------------------------------------------------------ bounds
\* Capacity of the RequestCache under test: the constructor's maxSize
\* parameter (100 by default), instantiated small so that the cache fills.
MaxSize == 2

\* The longest list of middlewares registered on a MiddlewareChain.
MaxMiddlewares == 3

\* ------------------------------------------------------------ configuration
ALLOWED_METHODS == <<"GET", "POST", "PUT", "PATCH", "DELETE", "OPTIONS">>

CORS_HEADERS ==
  { <<"Access-Control-Allow-Origin", "*">>,
    <<"Access-Control-Allow-Headers", "Content-Type, Authorization">>,
    <<"Access-Control-Max-Age", "86400">> }

MAX_BODY_SIZE == 5242880

\* process.env.API_URL and process.env.API_ACCESS_TOKEN
API_URL == <<"https", ":", "/", "/", "api", "/", "3">>

API_ACCESS_TOKEN == "s3cret"

BodyMethods == {"POST", "PUT", "PATCH"}

\* ------------------------------------------------------------ helpers
Includes(seq, x) == \E i \in 1..Len(seq) : seq[i] = x

RECURSIVE Join(_, _)
Join(seq, sep) ==
  IF Len(seq) = 0 THEN ""
  ELSE IF Len(seq) = 1 THEN seq[1]
  ELSE seq[1] \o sep \o Join(Tail(seq), sep)

\* JavaScript truthiness of the values the handlers test
Truthy(v) == v \notin {"undefined", "null", "false", "0", ""}

\* ------------------------------------------------------------ URLs
Schemes == {"https", "http"}

DefaultPort(scheme) == IF scheme = "https" THEN "443" ELSE "80"

\* the result of a failed parse: new URL(...) throws a TypeError
NoURL == [ok |-> FALSE, scheme |-> "", host |-> "", port |-> "", path |-> <<>>]

\* authority and path of a special-scheme URL, from the tokens after "//"
ParseAuthority(scheme, s) ==
  IF s = <<>> \/ s[1] \in {"/", ":", "["}
  THEN NoURL
  ELSE LET hasPort == Len(s) >= 2 /\ s[2] = ":"
           port    == IF hasPort /\ Len(s) >= 3 THEN s[3] ELSE ""
           rest    == IF hasPort THEN SubSeq(s, 4, Len(s)) ELSE Tail(s)
       IN IF (hasPort /\ Len(s) < 3) \/ (rest # <<>> /\ rest[1] # "/")
          THEN NoURL
          ELSE [ok     |-> TRUE,
                scheme |-> scheme,
                host   |-> s[1],
                port   |-> IF port = DefaultPort(scheme) THEN "" ELSE port,
                path   |-> IF rest = <<>> THEN <<"/">> ELSE rest]

\* new URL(s): s must be an absolute URL
ParseURL(s) ==
  IF Len(s) >= 4 /\ s[1] \in Schemes /\ s[2] = ":" /\ s[3] = "/" /\ s[4] = "/"
  THEN ParseAuthority(s[1], SubSeq(s, 5, Len(s)))
  ELSE NoURL

\* the directory of a path: everything up to and including its last "/"
RECURSIVE DirOf(_)
DirOf(p) ==
  IF p = <<>> THEN <<"/">>
  ELSE IF p[Len(p)] = "/" THEN p
  ELSE DirOf(SubSeq(p, 1, Len(p) - 1))

\* new URL(ref, base)
Resolve(ref, base) ==
  LET b == ParseURL(base)
  IN IF ~b.ok THEN NoURL
     ELSE IF ref = <<>> THEN b
     ELSE IF Len(ref) >= 2 /\ ref[1] \in Schemes /\ ref[2] = ":"
       THEN ParseURL(ref)
     ELSE IF Len(ref) >= 2 /\ ref[1] = "/" /\ ref[2] = "/"
       THEN ParseAuthority(b.scheme, SubSeq(ref, 3, Len(ref)))
     ELSE IF ref[1] = "/"
       THEN [b EXCEPT !.path = ref]
     ELSE [b EXCEPT !.path = DirOf(b.path) \o ref]

\* url.toString()
Serialize(u) ==
  <<u.scheme, ":", "/", "/", u.host>>
    \o (IF u.port = "" THEN <<>> ELSE <<":", u.port>>)
    \o u.path

\* ------------------------------------------------------------ JSON bodies
\* A body is <<>> (none), <<"json", v>> (the JSON text of value v as
\* JSON.stringify writes it), <<"json-spaced", v>> (a JSON text of v with
\* other white space) or <<"text", t>> (text that is not JSON).
Stringify(v) == <<"json", v>>

JsonOk(body) == Len(body) = 2 /\ body[1] \in {"json", "json-spaced"}

JsonValue(body) == body[2]

\* ------------------------------------------------------------ requests
Request(method, path, contentLength, contentType, accept, authorization, body) ==
  [method        |-> method,
   path          |-> path,
   contentLength |-> contentLength,
   contentType   |-> contentType,
   accept        |-> accept,
   authorization |-> authorization,
   body          |-> body]

PathA       == << <<"/", "a">> >>
PathB       == << <<"/", "b">> >>
PathEmpty   == << <<>> >>
PathEvil    == << <<"/", "/", "evil", "/", "a">> >>
PathEvilAbs == << <<"https", ":", "/", "/", "evil", "/", "a">> >>
PathHttp    == << <<"http", ":", "/", "/", "api", "/", "a">> >>
PathPort    == << <<"https", ":", "/", "/", "api", ":", "8443", "/", "a">> >>
PathBad     == << <<"https", ":", "/", "/", "[">> >>

BodyLess(method, path) == Request(method, path, <<>>, <<>>, <<>>, <<>>, <<>>)

\* body sizes: well under the limit, and one byte over it
Sizes == {2, MAX_BODY_SIZE + 1}

\* a body of n bytes: n "x" tokens would be the honest model; the handlers
\* only read its length and whether it parses, so a body is (size, text)
BodyRequests ==
  { Request("POST", path, cl, ct, <<>>, <<>>, <<size, text>>) :
      path \in {<<>>, PathA},
      ct \in {<<>>, <<"text/plain">>, <<"application/json">>},
      cl \in {<<>>} \cup {<<n>> : n \in Sizes},
      size \in Sizes,
      text \in {Stringify("v1"), <<"text", "{bad">>} }

Requests ==
  { BodyLess("GET", p) :
      p \in {<<>>, PathEmpty, PathA, PathB, PathEvil, PathEvilAbs, PathBad} }
  \cup { Request("GET", PathA, <<>>, <<>>, <<"application/json">>, <<"Bearer u">>, <<>>) }
  \cup { BodyLess("DELETE", p) : p \in {<<>>, PathA, PathEvil, PathHttp, PathPort} }
  \cup { BodyLess("OPTIONS", p) : p \in {<<>>, PathA} }
  \cup { BodyLess("TRACE", p) : p \in {<<>>, PathA} }
  \cup { r \in BodyRequests : r.contentLength = <<>> \/ r.contentLength[1] = r.body[1] }
  \cup { Request("PUT", PathA, <<2>>, <<"application/json; charset=utf-8">>,
                 <<>>, <<>>, <<2, Stringify("v1")>>),
         Request("PATCH", PathA, <<2>>, <<"text/plain">>, <<>>, <<>>,
                 <<2, Stringify("v1")>>),
         Request("PATCH", PathA, <<2>>, <<"application/json">>, <<>>, <<>>,
                 <<2, <<"json-spaced", "v1">> >>),
         Request("TRACE", <<>>, <<MAX_BODY_SIZE + 1>>, <<"text/plain">>, <<>>, <<>>,
                 <<MAX_BODY_SIZE + 1, <<"text", "{bad">>>>) }

\* ------------------------------------------------------------ responses
Response(status, body, headers) ==
  [kind |-> "response", status |-> status, body |-> body,
   headers |-> headers, error |-> ""]

Throw(name) ==
  [kind |-> "throw", status |-> 0, body |-> <<>>, headers |-> {}, error |-> name]

Nothing ==
  [kind |-> "none", status |-> 0, body |-> <<>>, headers |-> {}, error |-> ""]

HeaderOf(headers, name) ==
  IF \E h \in headers : h[1] = name
  THEN (CHOOSE h \in headers : h[1] = name)[2]
  ELSE "null"

\* headers.set(name, value)
SetHeader(headers, name, value) ==
  {h \in headers : h[1] # name} \cup {<<name, value>>}

\* what the upstream API may answer to a fetch
UpstreamResponses ==
  { Response(200, Stringify(d), {<<"content-type", "application/json">>}) :
      d \in {"null", "d1"} }
  \cup
  { Response(200, Stringify("d2"),
             {<<"content-type", "application/json">>,
              <<"Access-Control-Allow-Origin", "https://upstream.example">>}),
    Response(201, Stringify("d1"), {<<"content-type", "application/json">>}),
    Response(200, <<"text", "<html>">>, {<<"content-type", "text/html">>}),
    Response(200, <<"text", "{\"trunc">>, {<<"content-type", "application/json">>}),
    Response(404, Stringify("err404"), {<<"content-type", "application/json">>}),
    Response(405, <<"text", "method not allowed">>, {}) }

Ok(response) == response.status >= 200 /\ response.status <= 299

\* ------------------------------------------------------------ state
Slots == {"s1", "s2"}

\* chain:  src/api/index.js, lines 1-363 (the chain of handlers)
\* vite:   src/vite.config.js, lines 38-76 (GET)
\* route:  src/src/api/route.ts (GET)
\* proxy1: src/unnamed/part_001 (ApiProxy with middlewares and strategies)
\* proxy2: src/unnamed/part_002, lines 1-91 (ApiProxy)
\* cors:   src/unnamed/part_000, lines 129-458 (the chain with a CorsHandler)
\* test:   src/api/test.js (ApiHandler)
\* handler: src/api/index.js, lines 364-463 (the single function `handler`)
\* part4:  src/unnamed/part_004 (the chain with a CorsHandler and no catch)
\* part8:  src/unnamed/part_008 (GET)
Programs ==
  {"chain", "vite", "route", "proxy1", "proxy2", "cors", "test", "handler",
   "part4", "part8"}

\* One slot holds one request in flight: the request, the handler it is in
\* (pc), the value travelling back up the chain (ret: a Response or a thrown
\* error), the upstream fetches it issued, the upstream answer, its abort
\* timer and the lines it logged.  stage names the handler that produced
\* ret; cache0 is the cache as the request found it.
IdleSlot ==
  [pc       |-> "idle",
   r        |-> BodyLess("GET", <<>>),
   ret      |-> Nothing,
   fetches  |-> <<>>,
   upstream |-> Nothing,
   timer    |-> "unset",
   logs     |-> <<>>,
   stage    |-> "",
   cache0   |-> <<>>]

\* the first handler of each program
Entry(prog) ==
  CASE prog = "chain"  -> "MethodValidation"
    [] prog = "vite"   -> "ViteGet"
    [] prog = "route"  -> "RouteGet"
    [] prog = "proxy1" -> "Proxy1Middleware"
    [] prog = "proxy2" -> "Proxy2Handle"
    [] prog = "cors"   -> "CorsMethodValidation"
    [] prog = "test"   -> "ApiHandlerHandle"
    [] prog = "handler" -> "handler"
    [] prog = "part4"  -> "Part4MethodValidation"
    [] prog = "part8"  -> "Part8Get"

\* the requests a program is handed: the GET export of a route file gets GET
\* requests; ApiProxy.handleRequest is written for any method
ProgramRequests(prog) ==
  CASE prog \in {"chain", "cors", "part4"} -> Requests
    [] prog \in {"vite", "route", "part8"} -> {r \in Requests : r.method = "GET"}
    [] prog \in {"proxy1", "proxy2"} -> {r \in Requests : r.body = <<>>}
    [] prog \in {"test", "handler"} ->
         {r \in Requests : r.method \in {"GET", "POST", "PUT", "PATCH", "DELETE"}}

\* exec is the execution of a MiddlewareChain observed on its own; none here
NoExecute == [pc |-> "none"]

Init ==
  /\ program \in Programs
  /\ cache = <<>>
  /\ req = [s \in Slots |-> IdleSlot]
  /\ exec = NoExecute

\* ------------------------------------------------------------ src/api/index.js
\* getFullUrl(request): [threw, url]; url is null or the serialised URL
getFullUrl(r) ==
  IF r.path # <<>> /\ r.path[1] # <<>>
  THEN LET u == Resolve(r.path[1], API_URL)
       IN IF u.ok THEN [threw |-> FALSE, url |-> <<Serialize(u)>>]
                  ELSE [threw |-> TRUE, url |-> <<>>]
  ELSE [threw |-> FALSE, url |-> <<>>]

\* a cache key made of the method and the URL only
generateCacheKeyUrlOnly(r, fullUrl) == <<r.method, fullUrl, <<>>, <<>> >>

generateCacheKey(r, fullUrl) ==
  <<r.method, fullUrl, r.accept,
    IF r.authorization # <<>> THEN <<"present">> ELSE <<>> >>

\* RequestCache: a Map in insertion order, as a sequence of [key, value]
\* this.cache.keys()
CacheKeys(c) == {c[i].key : i \in 1..Len(c)}

RequestCacheGet(c, key) ==
  IF \E i \in 1..Len(c) : c[i].key = key
  THEN c[CHOOSE i \in 1..Len(c) : c[i].key = key].value
  ELSE "undefined"

\* a set that always adds an entry, as a push onto an array would
MapSetAppend(c, key, value) == Append(c, [key |-> key, value |-> value])

\* Map.prototype.set: an existing key keeps its place
MapSet(c, key, value) ==
  IF \E i \in 1..Len(c) : c[i].key = key
  THEN [i \in 1..Len(c) |->
          IF c[i].key = key THEN [key |-> key, value |-> value] ELSE c[i]]
  ELSE Append(c, [key |-> key, value |-> value])

\* RequestCache.set evicting only above maxSize (> for >=)
RequestCacheSetOffByOne(c, key, value) ==
  MapSet(IF Len(c) > MaxSize /\ Len(c) > 0 THEN Tail(c) ELSE c, key, value)

\* RequestCache.set deleting the newest key instead of the oldest
RequestCacheSetEvictNewest(c, key, value) ==
  MapSet(IF Len(c) >= MaxSize /\ Len(c) > 0 THEN SubSeq(c, 1, Len(c) - 1) ELSE c,
         key, value)

RequestCacheSet(c, key, value) ==
  MapSet(IF Len(c) >= MaxSize /\ Len(c) > 0 THEN Tail(c) ELSE c, key, value)

\* isValidPath accepting any URL that parses, whatever its hostname
isValidPathAnyHost(path) == ParseURL(path).ok

\* ValidationHandler.isValidPath(path), with this.apiUrl = API_URL
isValidPath(path) ==
  LET url == ParseURL(path)
      api == ParseURL(API_URL)
  IN url.ok /\ api.ok /\ url.host = api.host

\* contentType.includes('application/json')
IncludesJson(contentType) ==
  contentType \in {"application/json", "application/json; charset=utf-8"}

TextResponse(status, text) ==
  Response(status, <<"text", text>>,
           {<<"Content-Type", "text/plain">>} \cup CORS_HEADERS)

\* the slot's request is answered (or its promise rejected) with out
Finish(s, out, stage) ==
  req' = [req EXCEPT ![s].pc = "done", ![s].ret = out, ![s].stage = stage]

\* ret travels back to the handler waiting at pc
Return(s, pc, out, stage) ==
  req' = [req EXCEPT ![s].pc = pc, ![s].ret = out, ![s].stage = stage]

Goto(s, pc) == req' = [req EXCEPT ![s].pc = pc]

\* the runtime hands request r to the program's exported handler
Arrive(s, r, snapshot) ==
  /\ req[s].pc = "idle"
  /\ r \in ProgramRequests(program)
  /\ req' = [req EXCEPT ![s] = [IdleSlot EXCEPT !.pc = Entry(program),
                                                !.r = r,
                                                !.cache0 = snapshot]]
  /\ UNCHANGED <<program, cache, exec>>

Start(s, r) == Arrive(s, r, cache)

\* with requests overlapping, the cache a request found is not recorded
StartOverlap(s, r) == Arrive(s, r, <<>>)

\* MethodValidationHandler with a list that lacks OPTIONS
MethodValidationHandlerNoOptions(s) ==
  /\ req[s].pc = "MethodValidation"
  /\ IF ~Includes(<<"GET", "POST", "PUT", "PATCH", "DELETE">>, req[s].r.method)
     THEN Finish(s, Response(405, <<"text", "Method " \o req[s].r.method \o " not allowed">>,
                             {<<"Allow", Join(ALLOWED_METHODS, ", ")>>,
                              <<"Content-Type", "text/plain">>} \cup CORS_HEADERS),
                 "MethodValidation")
     ELSE Goto(s, "BodySize")
  /\ UNCHANGED <<program, cache, exec>>

MethodValidationHandler(s) ==
  /\ req[s].pc = "MethodValidation"
  /\ IF ~Includes(ALLOWED_METHODS, req[s].r.method)
     THEN Finish(s, Response(405, <<"text", "Method " \o req[s].r.method \o " not allowed">>,
                             {<<"Allow", Join(ALLOWED_METHODS, ", ")>>,
                              <<"Content-Type", "text/plain">>} \cup CORS_HEADERS),
                 "MethodValidation")
     ELSE Goto(s, "BodySize")
  /\ UNCHANGED <<program, cache, exec>>

\* BodySizeHandler placed after the content-type check: the content type
\* is looked at first
BodySizeHandlerAfterContentType(s) ==
  /\ req[s].pc = "BodySize"
  /\ IF /\ req[s].r.method \in BodyMethods
        /\ (req[s].r.contentType = <<>> \/ ~IncludesJson(req[s].r.contentType[1]))
     THEN Finish(s, TextResponse(415, "Content-Type must be application/json"),
                 "ContentType")
     ELSE IF /\ req[s].r.method \in BodyMethods
             /\ req[s].r.contentLength # <<>>
             /\ req[s].r.contentLength[1] > MAX_BODY_SIZE
     THEN Finish(s, TextResponse(413, "Payload too large, max 5242880 bytes allowed"), "BodySize")
     ELSE Goto(s, "ContentType")
  /\ UNCHANGED <<program, cache, exec>>

BodySizeHandler(s) ==
  /\ req[s].pc = "BodySize"
  /\ IF /\ req[s].r.method \in BodyMethods
        /\ req[s].r.contentLength # <<>>
        /\ req[s].r.contentLength[1] > MAX_BODY_SIZE
     THEN Finish(s, TextResponse(413, "Payload too large, max 5242880 bytes allowed"), "BodySize")
     ELSE Goto(s, "ContentType")
  /\ UNCHANGED <<program, cache, exec>>

ContentTypeHandler(s) ==
  /\ req[s].pc = "ContentType"
  /\ IF /\ req[s].r.method \in BodyMethods
        /\ (req[s].r.contentType = <<>> \/ ~IncludesJson(req[s].r.contentType[1]))
     THEN Finish(s, TextResponse(415, "Content-Type must be application/json"),
                 "ContentType")
     ELSE Goto(s, "Logging")
  /\ UNCHANGED <<program, cache, exec>>

\* LoggingHandler.handle up to its await: getFullUrl runs outside the try
LoggingHandler(s) ==
  /\ req[s].pc = "Logging"
  /\ IF getFullUrl(req[s].r).threw
     THEN Finish(s, Throw("TypeError"), "Logging")
     ELSE Goto(s, "Validation")
  /\ UNCHANGED <<program, cache, exec>>

\* ValidationHandler that builds its 400 but still delegates to the next
\* handler (a missing return)
ValidationHandlerFallsThrough(s) ==
  /\ req[s].pc = "Validation"
  /\ LET path == getFullUrl(req[s].r).url
     IN IF path = <<>> \/ ~isValidPath(path[1])
        THEN Return(s, "Timeout",
                    TextResponse(400, "Invalid or missing \"path\" parameter"),
                    "Validation")
        ELSE Goto(s, "Timeout")
  /\ UNCHANGED <<program, cache, exec>>

ValidationHandler(s) ==
  /\ req[s].pc = "Validation"
  /\ LET path == getFullUrl(req[s].r).url
     IN IF path = <<>> \/ ~isValidPath(path[1])
        THEN Return(s, "LoggingExit",
                    TextResponse(400, "Invalid or missing \"path\" parameter"),
                    "Validation")
        ELSE Goto(s, "Timeout")
  /\ UNCHANGED <<program, cache, exec>>

\* TimeoutHandler.handle up to its await: the timer is set and the request
\* takes the controller's signal (the assignment of line 233 is taken to
\* have its effect: ApiFetchHandler reads the signal back from the request)
TimeoutHandler(s) ==
  /\ req[s].pc = "Timeout"
  /\ req' = [req EXCEPT ![s].pc = "Cache", ![s].timer = "armed"]
  /\ UNCHANGED <<program, cache, exec>>

\* CacheHandler.handle up to its await: the lookup
CacheHandler(s) ==
  /\ req[s].pc = "Cache"
  /\ LET r       == req[s].r
         fullUrl == getFullUrl(r).url
         cached  == IF r.method = "GET" /\ fullUrl # <<>>
                    THEN RequestCacheGet(cache, generateCacheKey(r, fullUrl[1]))
                    ELSE "undefined"
     IN IF Truthy(cached)
        THEN Return(s, "TimeoutExit",
                    Response(200, Stringify(cached),
                             {<<"Content-Type", "application/json">>,
                              <<"X-Cache", "HIT">>} \cup CORS_HEADERS),
                    "CacheHit")
        ELSE Goto(s, "ApiFetch")
  /\ UNCHANGED <<program, cache, exec>>

\* fetch options that carry the inbound body as it came, not re-serialised
FetchOptionsRawBody(r, fullUrl) ==
  [url     |-> fullUrl,
   method  |-> r.method,
   headers |-> {<<"Authorization", "Bearer " \o API_ACCESS_TOKEN>>,
                <<"Accept", "application/json">>}
               \cup (IF r.method \in BodyMethods
                     THEN {<<"Content-Type", "application/json">>} ELSE {}),
   body    |-> IF r.method \in BodyMethods THEN r.body[2] ELSE <<>>,
   signal  |-> TRUE]

\* the options ApiFetchHandler passes to fetch
FetchOptions(r, fullUrl) ==
  [url     |-> fullUrl,
   method  |-> r.method,
   headers |-> {<<"Authorization", "Bearer " \o API_ACCESS_TOKEN>>,
                <<"Accept", "application/json">>}
               \cup (IF r.method \in BodyMethods
                     THEN {<<"Content-Type", "application/json">>} ELSE {}),
   body    |-> IF r.method \in BodyMethods
               THEN Stringify(JsonValue(r.body[2])) ELSE <<>>,
   signal  |-> TRUE]

\* ApiFetchHandler forwarding the inbound body as it is, unparsed
ApiFetchHandlerNoParse(s) ==
  /\ req[s].pc = "ApiFetch"
  /\ LET r == req[s].r
     IN req' = [req EXCEPT
          ![s].pc = "awaitFetch",
          ![s].fetches = Append(@,
             [FetchOptions(r, getFullUrl(r).url[1]) EXCEPT
                !.body = IF r.body = <<>> THEN <<>> ELSE r.body[2]])]
  /\ UNCHANGED <<program, cache, exec>>

\* ApiFetchHandler.handle up to its await fetch(...)
ApiFetchHandler(s) ==
  /\ req[s].pc = "ApiFetch"
  /\ LET r == req[s].r
     IN IF r.method \in BodyMethods /\ (r.body = <<>> \/ ~JsonOk(r.body[2]))
        THEN Return(s, "CacheStore", TextResponse(400, "Invalid JSON body"),
                    "InvalidJson")
        ELSE req' = [req EXCEPT
               ![s].pc = "awaitFetch",
               ![s].fetches = Append(@, FetchOptions(r, getFullUrl(r).url[1]))]
  /\ UNCHANGED <<program, cache, exec>>

\* where the program resumes when the fetch resolves, and where a rejected
\* fetch is caught
ResumePc(prog) ==
  CASE prog = "chain"  -> "ApiFetchReturn"
    [] prog = "vite"   -> "ViteReturn"
    [] prog = "route"  -> "RouteReturn"
    [] prog = "proxy1" -> "Proxy1Return"
    [] prog = "proxy2" -> "Proxy2Return"
    [] prog = "cors"   -> "CorsApiFetchReturn"
    [] prog = "test"   -> "ApiHandlerReturn"
    [] prog = "handler" -> "handlerReturn"
    [] prog = "part4"  -> "Part4ApiFetchReturn"
    [] prog = "part8"  -> "Part8Return"

CatchPc(prog) ==
  CASE prog = "chain"  -> "TimeoutExit"
    [] prog = "vite"   -> "ViteReturn"
    [] prog = "route"  -> "RouteReturn"
    [] prog = "proxy1" -> "Proxy1Return"
    [] prog = "proxy2" -> "Proxy2Return"
    [] prog = "cors"   -> "CorsLoggingExit"
    [] prog = "test"   -> "ApiHandlerReturn"
    [] prog = "handler" -> "handlerReturn"
    [] prog = "part4"  -> "Part4LoggingExit"
    [] prog = "part8"  -> "Part8Return"

\* the upstream API answers the pending fetch
UpstreamRespond(s, u) ==
  /\ req[s].pc = "awaitFetch"
  /\ req' = [req EXCEPT ![s].pc = ResumePc(program), ![s].upstream = u]
  /\ UNCHANGED <<program, cache, exec>>

\* the fetch rejects: no connection
NetworkFailure(s) ==
  /\ req[s].pc = "awaitFetch"
  /\ Return(s, CatchPc(program), Throw("TypeError"), "NetworkFailure")
  /\ UNCHANGED <<program, cache, exec>>

\* setTimeout's callback: controller.abort() rejects the pending fetch, or
\* the pending read of the upstream body (apiResponse.text() of a non-ok
\* answer, response.json() of an ok one), with an AbortError
TimerFires(s) ==
  /\ req[s].timer = "armed"
  /\ \/ req[s].pc = "awaitFetch"
     \/ /\ req[s].pc = "ApiFetchReturn"
        /\ ~Ok(req[s].upstream)
     \/ /\ req[s].pc = "CacheStore"
        /\ req[s].r.method = "GET"
        /\ req[s].stage = "Upstream"
  /\ req' = [req EXCEPT ![s].pc = "TimeoutExit", ![s].timer = "fired",
                        ![s].ret = Throw("AbortError"), ![s].stage = "Abort"]
  /\ UNCHANGED <<program, cache, exec>>

\* ApiFetchHandler.handle after its await fetch(...)
ApiFetchReturn(s) ==
  /\ req[s].pc = "ApiFetchReturn"
  /\ LET apiResponse == req[s].upstream
         contentType == HeaderOf(apiResponse.headers, "content-type")
     IN IF ~Ok(apiResponse)
        THEN Return(s, "CacheStore",
                    Response(apiResponse.status, apiResponse.body,
                             {<<"Content-Type",
                                IF Truthy(contentType) THEN contentType
                                                       ELSE "text/plain">>}
                             \cup CORS_HEADERS),
                    "UpstreamError")
        ELSE Return(s, "CacheStore", apiResponse, "Upstream")
  /\ UNCHANGED <<program, exec>>
  /\ UNCHANGED cache

\* CacheHandler storing the answer of a request of any method
CacheStoreAnyMethod(s) ==
  /\ req[s].pc = "CacheStore"
  /\ LET r        == req[s].r
         fullUrl  == getFullUrl(r).url
         response == req[s].ret
     IN IF response.kind = "response" /\ fullUrl # <<>>
        THEN IF JsonOk(response.body)
             THEN /\ cache' = RequestCacheSet(cache,
                                generateCacheKey(r, fullUrl[1]),
                                JsonValue(response.body))
                  /\ Return(s, "TimeoutExit",
                            Response(200, Stringify(JsonValue(response.body)),
                                     {<<"Content-Type", "application/json">>,
                                      <<"X-Cache", "MISS">>} \cup CORS_HEADERS),
                            "CacheMiss")
             ELSE /\ cache' = cache
                  /\ Return(s, "TimeoutExit", Throw("SyntaxError"), "CacheJson")
        ELSE /\ cache' = cache
             /\ Goto(s, "TimeoutExit")
  /\ UNCHANGED <<program, exec>>

\* CacheHandler.handle after its await super.handle(request)
CacheStore(s) ==
  /\ req[s].pc = "CacheStore"
  /\ LET r        == req[s].r
         fullUrl  == getFullUrl(r).url
         response == req[s].ret
     IN IF r.method = "GET" /\ response.kind = "response" /\ fullUrl # <<>>
        THEN IF JsonOk(response.body)
             THEN /\ cache' = RequestCacheSet(cache,
                                generateCacheKey(r, fullUrl[1]),
                                JsonValue(response.body))
                  /\ Return(s, "TimeoutExit",
                            Response(200, Stringify(JsonValue(response.body)),
                                     {<<"Content-Type", "application/json">>,
                                      <<"X-Cache", "MISS">>} \cup CORS_HEADERS),
                            "CacheMiss")
             ELSE /\ cache' = cache
                  /\ Return(s, "TimeoutExit", Throw("SyntaxError"), "CacheJson")
        ELSE /\ cache' = cache
             /\ Goto(s, "TimeoutExit")
  /\ UNCHANGED <<program, exec>>

\* TimeoutHandler calling clearTimeout in its catch block only: the timer
\* of a request that got its response stays armed
TimeoutExitNoClear(s) ==
  /\ req[s].pc = "TimeoutExit"
  /\ req' = [req EXCEPT
       ![s].pc = "LoggingExit",
       ![s].timer = IF req[s].ret.kind = "throw" THEN "cleared" ELSE @,
       ![s].ret = IF @.kind = "throw" /\ @.error = "AbortError"
                  THEN TextResponse(504, "API request timeout") ELSE @,
       ![s].stage = IF req[s].ret.kind = "throw" /\ req[s].ret.error = "AbortError"
                    THEN "Timeout" ELSE @]
  /\ UNCHANGED <<program, cache, exec>>

\* TimeoutHandler.handle after its await: clearTimeout, and the catch
TimeoutExit(s) ==
  /\ req[s].pc = "TimeoutExit"
  /\ req' = [req EXCEPT
       ![s].pc = "LoggingExit",
       ![s].timer = "cleared",
       ![s].ret = IF @.kind = "throw" /\ @.error = "AbortError"
                  THEN TextResponse(504, "API request timeout") ELSE @,
       ![s].stage = IF req[s].ret.kind = "throw" /\ req[s].ret.error = "AbortError"
                    THEN "Timeout" ELSE @]
  /\ UNCHANGED <<program, cache, exec>>

LogLine(r, status, isError) ==
  [method |-> r.method, path |-> getFullUrl(r).url, status |-> status,
   error |-> isError]

\* LoggingHandler.handle after its await: the log line
LoggingExit(s) ==
  /\ req[s].pc = "LoggingExit"
  /\ LET out == req[s].ret
     IN req' = [req EXCEPT
          ![s].pc = "done",
          ![s].logs = Append(@, IF out.kind = "response"
                                THEN LogLine(req[s].r, out.status, FALSE)
                                ELSE LogLine(req[s].r, 500, TRUE))]
  /\ UNCHANGED <<program, cache, exec>>

\* the response has been sent: the slot takes the next request
Recycle(s) ==
  /\ req[s].pc = "done"
  /\ req' = [req EXCEPT ![s] = IdleSlot]
  /\ UNCHANGED <<program, cache, exec>>

\* ------------------------------------------------------------ single-function handlers
JsonResponse(status, value) ==
  Response(status, Stringify(value), {<<"content-type", "application/json">>})

AuthHeaders ==
  {<<"Authorization", "Bearer " \o API_ACCESS_TOKEN>>,
   <<"Accept", "application/json">>}

GetFetch(url, headers) ==
  [url |-> url, method |-> "GET", headers |-> headers, body |-> <<>>,
   signal |-> FALSE]

PathFalsy(r) == r.path = <<>> \/ r.path[1] = <<>>

\* src/vite.config.js GET, up to its await fetch(url.toString())
ViteGet(s) ==
  /\ req[s].pc = "ViteGet"
  /\ LET r   == req[s].r
         url == ParseURL(API_URL \o r.path[1])
     IN IF PathFalsy(r)
        THEN Finish(s, JsonResponse(400, "Missing path parameter"), "Path")
        ELSE IF ~url.ok
        THEN Finish(s, Throw("TypeError"), "Url")
        ELSE req' = [req EXCEPT
               ![s].pc = "awaitFetch",
               ![s].fetches = Append(@, GetFetch(Serialize(url), {}))]
  /\ UNCHANGED <<program, cache, exec>>

\* src/vite.config.js GET, after its await
ViteReturn(s) ==
  /\ req[s].pc = "ViteReturn"
  /\ LET response == req[s].upstream
     IN IF req[s].ret.kind = "throw" \/ ~Ok(response)
        THEN Finish(s, JsonResponse(500, "Error"), "Catch")
        ELSE Finish(s,
               Response(response.status, response.body,
                 SetHeader(SetHeader(SetHeader(SetHeader(response.headers,
                   "Authorization", "Bearer " \o API_ACCESS_TOKEN),
                   "Accept", "application/json"),
                   "Access-Control-Allow-Origin", "*"),
                   "Access-Control-Allow-Methods", "GET, OPTIONS")),
               "Upstream")
  /\ UNCHANGED <<program, cache, exec>>

\* src/src/api/route.ts GET, up to its await fetch(...)
RouteGet(s) ==
  /\ req[s].pc = "RouteGet"
  /\ LET r   == req[s].r
         url == ParseURL(API_URL \o r.path[1])
     IN IF PathFalsy(r)
        THEN Finish(s, JsonResponse(400, "Missing path parameter"), "Path")
        ELSE IF ~url.ok
        THEN Finish(s, Throw("TypeError"), "Url")
        ELSE req' = [req EXCEPT
               ![s].pc = "awaitFetch",
               ![s].fetches = Append(@, GetFetch(Serialize(url), AuthHeaders))]
  /\ UNCHANGED <<program, cache, exec>>

\* src/src/api/route.ts GET, after its await
RouteReturn(s) ==
  /\ req[s].pc = "RouteReturn"
  /\ IF req[s].ret.kind = "throw" \/ ~Ok(req[s].upstream)
     THEN Finish(s, JsonResponse(500, "Error"), "Catch")
     ELSE Finish(s, req[s].upstream, "Upstream")
  /\ UNCHANGED <<program, cache, exec>>

\* src/unnamed/part_008 GET, up to its await fetch(...)
Part8Get(s) ==
  /\ req[s].pc = "Part8Get"
  /\ LET r   == req[s].r
         url == ParseURL(API_URL \o r.path[1])
     IN IF PathFalsy(r)
        THEN Finish(s, JsonResponse(400, "Missing path parameter"), "Path")
        ELSE IF ~url.ok
        THEN Finish(s, Throw("TypeError"), "Url")
        ELSE req' = [req EXCEPT
               ![s].pc = "awaitFetch",
               ![s].fetches = Append(@, GetFetch(Serialize(url), AuthHeaders))]
  /\ UNCHANGED <<program, cache, exec>>

\* src/unnamed/part_008 GET, after its await
Part8Return(s) ==
  /\ req[s].pc = "Part8Return"
  /\ LET response == req[s].upstream
     IN IF req[s].ret.kind = "throw" \/ ~Ok(response)
        THEN Finish(s, JsonResponse(500, "Error"), "Catch")
        ELSE Finish(s,
               Response(response.status, response.body,
                 SetHeader(SetHeader(response.headers,
                   "Access-Control-Allow-Origin", "*"),
                   "Access-Control-Allow-Methods", "GET, OPTIONS")),
               "Upstream")
  /\ UNCHANGED <<program, cache, exec>>

\* ------------------------------------------------------------ ApiProxy
PROXY_ALLOWED_METHODS == <<"GET", "OPTIONS">>

\* handleOptionsRequest()
OptionsResponse ==
  Response(200, <<>>,
           {<<"Access-Control-Allow-Methods", "GET, OPTIONS">>,
            <<"Access-Control-Allow-Headers", "Content-Type, Authorization">>})

\* errorResponse(message, status)
ErrorResponse(message, status) == Response(status, Stringify(message), {})

\* result instanceof Response
IsResponse(v) == v.kind = "response"

\* a value that is a request (not a Response, not undefined)
IsRequest(v) == v.kind = "request"

\* the request r as a value passed along a middleware chain
AsValue(r) == [kind |-> "request", request |-> r]

\* the value undefined
Undefined == [kind |-> "undefined"]

\* the middlewares of part_001 (a middleware returns a Response or the
\* request); reading request.method of undefined throws a TypeError
logRequest(v) == IF IsRequest(v) THEN v ELSE Throw("TypeError")

validateRequest(v) ==
  IF ~IsRequest(v) THEN Throw("TypeError")
  ELSE IF ~Includes(PROXY_ALLOWED_METHODS, v.request.method)
  THEN Response(405, <<>>, {})
  ELSE v

\* other middlewares a chain can be given: one that returns a changed
\* request, one that always answers, one that returns nothing
setAccept(v) ==
  IF IsRequest(v)
  THEN AsValue([v.request EXCEPT !.accept = <<"application/json">>])
  ELSE Throw("TypeError")

respond(v) == Response(200, <<>>, {})

returnNothing(v) == Undefined

MiddlewareNames ==
  {"logRequest", "validateRequest", "setAccept", "respond", "returnNothing"}

\* middleware(result)
Middleware(name, v) ==
  CASE name = "logRequest"      -> logRequest(v)
    [] name = "validateRequest" -> validateRequest(v)
    [] name = "setAccept"       -> setAccept(v)
    [] name = "respond"         -> respond(v)
    [] name = "returnNothing"   -> returnNothing(v)

\* apiProxyInstance.middlewareChain.use(logRequest).use(validateRequest)
Middlewares == <<"logRequest", "validateRequest">>

\* MiddlewareChain.execute(request) about to start its loop: the
\* middlewares registered, the position in the loop, `result`, and the calls
\* made so far (each with its argument and what it returned)
ExecuteStart(middlewares, request) ==
  [pc          |-> "loop",
   middlewares |-> middlewares,
   request     |-> request,
   i           |-> 1,
   result      |-> request,
   calls       |-> <<>>]

\* an iteration that hands every middleware the original request
ExecuteIterationOriginalRequest(e) ==
  LET name == e.middlewares[e.i]
      out  == Middleware(name, e.request)
      next == [e EXCEPT !.calls = Append(@, [name   |-> name,
                                             arg    |-> e.request,
                                             result |-> out])]
  IN IF out.kind = "throw"
     THEN [next EXCEPT !.pc = "threw", !.result = out]
     ELSE IF IsResponse(out)
     THEN [next EXCEPT !.pc = "returned", !.result = out]
     ELSE [next EXCEPT !.i = @ + 1, !.result = out]

\* one iteration of the loop of execute: result = await middleware(result),
\* and the return when the result is a Response
ExecuteIteration(e) ==
  LET name == e.middlewares[e.i]
      out  == Middleware(name, e.result)
      next == [e EXCEPT !.calls = Append(@, [name   |-> name,
                                             arg    |-> e.result,
                                             result |-> out])]
  IN IF out.kind = "throw"
     THEN [next EXCEPT !.pc = "threw", !.result = out]
     ELSE IF IsResponse(out)
     THEN [next EXCEPT !.pc = "returned", !.result = out]
     ELSE [next EXCEPT !.i = @ + 1, !.result = out]

\* the loop is over: return result
ExecuteLoopEnd(e) == [e EXCEPT !.pc = "returned"]

RECURSIVE ExecuteRun(_)
ExecuteRun(e) ==
  IF e.pc # "loop" THEN e
  ELSE IF e.i > Len(e.middlewares) THEN ExecuteRun(ExecuteLoopEnd(e))
  ELSE ExecuteRun(ExecuteIteration(e))

\* await this.middlewareChain.execute(request)
Execute(middlewares, r) == ExecuteRun(ExecuteStart(middlewares, AsValue(r))).result

\* part_001 ApiProxy.handleRequest: the middleware chain
Proxy1Middleware(s) ==
  /\ req[s].pc = "Proxy1Middleware"
  /\ LET middlewareResult == Execute(Middlewares, req[s].r)
     IN IF IsResponse(middlewareResult)
        THEN Finish(s, middlewareResult, "Middleware")
        ELSE Goto(s, "Proxy1Strategy")
  /\ UNCHANGED <<program, cache, exec>>

\* String(request), which new URL(path, base) applies to its first argument
RequestAsString == <<"[object Request]">>

\* part_001: requestStrategy.execute(request.method, request); the GET
\* strategy is forwardRequest, called with the request as its path
Proxy1Strategy(s) ==
  /\ req[s].pc = "Proxy1Strategy"
  /\ LET r   == req[s].r
         url == Resolve(RequestAsString, API_URL)
     IN IF r.method = "OPTIONS"
        THEN Finish(s, OptionsResponse, "Options")
        ELSE IF r.method # "GET" \/ ~url.ok
        THEN Finish(s, ErrorResponse("Error", 500), "Catch")
        ELSE req' = [req EXCEPT
               ![s].pc = "awaitFetch",
               ![s].fetches = Append(@, GetFetch(Serialize(url), AuthHeaders))]
  /\ UNCHANGED <<program, cache, exec>>

\* part_001 forwardRequest after its await, and handleRequest's catch
Proxy1Return(s) ==
  /\ req[s].pc = "Proxy1Return"
  /\ IF req[s].ret.kind = "throw" \/ ~Ok(req[s].upstream)
     THEN Finish(s, ErrorResponse("API error", 500), "Catch")
     ELSE Finish(s, req[s].upstream, "Upstream")
  /\ UNCHANGED <<program, cache, exec>>

\* part_002 ApiProxy.handleRequest up to the await in forwardRequest
Proxy2Handle(s) ==
  /\ req[s].pc = "Proxy2Handle"
  /\ LET r       == req[s].r
         fullUrl == Resolve(r.path[1], API_URL)
     IN IF r.method = "OPTIONS"
        THEN Finish(s, OptionsResponse, "Options")
        ELSE IF ~Includes(PROXY_ALLOWED_METHODS, r.method)
        THEN Finish(s, ErrorResponse("Method not allowed", 405), "Method")
        ELSE IF PathFalsy(r)
        THEN Finish(s, ErrorResponse("Missing \"path\" parameter", 400), "Path")
        ELSE IF ~fullUrl.ok
        THEN Finish(s, ErrorResponse("Invalid URL", 500), "Catch")
        ELSE req' = [req EXCEPT
               ![s].pc = "awaitFetch",
               ![s].fetches = Append(@, GetFetch(Serialize(fullUrl), AuthHeaders))]
  /\ UNCHANGED <<program, cache, exec>>

\* part_002 after the await: forwardRequest's check, apiResponse.json()
Proxy2Return(s) ==
  /\ req[s].pc = "Proxy2Return"
  /\ LET apiResponse == req[s].upstream
     IN IF req[s].ret.kind = "throw" \/ ~Ok(apiResponse) \/ ~JsonOk(apiResponse.body)
        THEN Finish(s, ErrorResponse("API error", 500), "Catch")
        ELSE Finish(s, Response(200, Stringify(JsonValue(apiResponse.body)), {}),
                    "Upstream")
  /\ UNCHANGED <<program, cache, exec>>

\* ------------------------------------------------------------ src/unnamed/part_000
\* The chain of part_000 (lines 129-458): MethodValidationHandler,
\* BodySizeHandler, CorsHandler, LoggingHandler, ValidationHandler,
\* CacheHandler, ApiFetchHandler.  Its stages signal failure by throwing.

\* throw { status, message }
ThrowObject(status, message) ==
  [kind |-> "throw", status |-> status, body |-> message, headers |-> {},
   error |-> "object"]

\* new Response(text, {status}) with no headers given
PlainResponse(status, body) ==
  Response(status, body, {<<"content-type", "text/plain;charset=UTF-8">>})

\* the headers CorsHandler adds
CorsHandlerHeaders ==
  CORS_HEADERS \cup {<<"Access-Control-Allow-Methods", Join(ALLOWED_METHODS, ", ")>>}

HasHeader(headers, name) == \E h \in headers : h[1] = name

CorsMethodValidationHandler(s) ==
  /\ req[s].pc = "CorsMethodValidation"
  /\ IF ~Includes(ALLOWED_METHODS, req[s].r.method)
     THEN Finish(s, Response(405,
                             <<"text", "Method " \o req[s].r.method \o " not allowed">>,
                             {<<"Allow", Join(ALLOWED_METHODS, ", ")>>,
                              <<"Content-Type", "text/plain">>}),
                 "MethodValidation")
     ELSE Goto(s, "CorsBodySize")
  /\ UNCHANGED <<program, cache, exec>>

\* BodySizeHandler of part_000: the Content-Length header, then the length
\* of the body itself
CorsBodySizeHandler(s) ==
  /\ req[s].pc = "CorsBodySize"
  /\ LET r == req[s].r
     IN IF /\ r.method \in BodyMethods
           /\ \/ r.contentLength # <<>> /\ r.contentLength[1] > MAX_BODY_SIZE
              \/ r.body # <<>> /\ r.body[1] > MAX_BODY_SIZE
        THEN Finish(s, TextResponse(413, "Payload too large, max 5242880 bytes allowed"),
                    "BodySize")
        ELSE Goto(s, "CorsCors")
  /\ UNCHANGED <<program, cache, exec>>

\* a CorsHandler without the preflight branch: OPTIONS goes down the chain
CorsHandlerNoPreflight(s) ==
  /\ req[s].pc = "CorsCors"
  /\ Goto(s, "CorsLogging")
  /\ UNCHANGED <<program, cache, exec>>

\* CorsHandler.handle up to its await
CorsHandler(s) ==
  /\ req[s].pc = "CorsCors"
  /\ IF req[s].r.method = "OPTIONS"
     THEN Finish(s, Response(200, <<>>, CorsHandlerHeaders), "Options")
     ELSE Goto(s, "CorsLogging")
  /\ UNCHANGED <<program, cache, exec>>

\* LoggingHandler.handle up to its await: getFullUrl runs outside its try,
\* inside CorsHandler's
CorsLoggingHandler(s) ==
  /\ req[s].pc = "CorsLogging"
  /\ IF getFullUrl(req[s].r).threw
     THEN Return(s, "CorsExit", Throw("TypeError"), "Logging")
     ELSE Goto(s, "CorsValidation")
  /\ UNCHANGED <<program, cache, exec>>

CorsValidationHandler(s) ==
  /\ req[s].pc = "CorsValidation"
  /\ LET path == getFullUrl(req[s].r).url
     IN IF path = <<>> \/ ~isValidPath(path[1])
        THEN Return(s, "CorsLoggingExit",
                    ThrowObject(400, <<"text", "Invalid or missing \"path\" parameter">>),
                    "Validation")
        ELSE Goto(s, "CorsCache")
  /\ UNCHANGED <<program, cache, exec>>

\* the key of part_000's cache: `GET:${fullUrl}`
CorsCacheKey(fullUrl) == <<"GET", fullUrl>>

\* CacheHandler.handle up to its await
CorsCacheHandler(s) ==
  /\ req[s].pc = "CorsCache"
  /\ LET r       == req[s].r
         fullUrl == getFullUrl(r).url
         cached  == IF r.method = "GET" /\ fullUrl # <<>>
                    THEN RequestCacheGet(cache, CorsCacheKey(fullUrl[1]))
                    ELSE "undefined"
     IN IF Truthy(cached)
        THEN Return(s, "CorsLoggingExit", PlainResponse(200, Stringify(cached)),
                    "CacheHit")
        ELSE Goto(s, "CorsApiFetch")
  /\ UNCHANGED <<program, cache, exec>>

\* ApiFetchHandler.handle up to its await fetch(...)
CorsApiFetchHandler(s) ==
  /\ req[s].pc = "CorsApiFetch"
  /\ LET r == req[s].r
     IN IF r.method \in BodyMethods /\ (r.body = <<>> \/ ~JsonOk(r.body[2]))
        THEN Return(s, "CorsLoggingExit",
                    ThrowObject(400, <<"text", "Invalid JSON body">>), "InvalidJson")
        ELSE req' = [req EXCEPT
               ![s].pc = "awaitFetch",
               ![s].fetches = Append(@,
                  [FetchOptions(r, getFullUrl(r).url[1]) EXCEPT !.signal = FALSE])]
  /\ UNCHANGED <<program, cache, exec>>

\* ApiFetchHandler.handle after its await, then CacheHandler.handle after its
\* await: both run before the next await or return
CorsApiFetchReturn(s) ==
  /\ req[s].pc = "CorsApiFetchReturn"
  /\ LET r           == req[s].r
         fullUrl     == getFullUrl(r).url
         apiResponse == req[s].upstream
     IN IF ~Ok(apiResponse)
        THEN /\ cache' = cache
             /\ Return(s, "CorsLoggingExit",
                       ThrowObject(apiResponse.status, apiResponse.body),
                       "UpstreamError")
        ELSE IF r.method = "GET" /\ fullUrl # <<>>
        THEN IF JsonOk(apiResponse.body)
             THEN /\ cache' = RequestCacheSet(cache, CorsCacheKey(fullUrl[1]),
                                              JsonValue(apiResponse.body))
                  /\ Return(s, "CorsLoggingExit",
                            PlainResponse(200, Stringify(JsonValue(apiResponse.body))),
                            "CacheMiss")
             ELSE /\ cache' = cache
                  /\ Return(s, "CorsLoggingExit", Throw("SyntaxError"), "CacheJson")
        ELSE /\ cache' = cache
             /\ Return(s, "CorsLoggingExit", apiResponse, "Upstream")
  /\ UNCHANGED <<program, exec>>

\* error.status || 500
StatusOr500(error) == IF error.status # 0 THEN error.status ELSE 500

\* LoggingHandler.handle after its await: the log line; an error is rethrown
CorsLoggingExit(s) ==
  /\ req[s].pc = "CorsLoggingExit"
  /\ LET out == req[s].ret
     IN req' = [req EXCEPT
          ![s].pc = "CorsExit",
          ![s].logs = Append(@, IF out.kind = "response"
                                THEN LogLine(req[s].r, out.status, FALSE)
                                ELSE LogLine(req[s].r, StatusOr500(out), TRUE))]
  /\ UNCHANGED <<program, cache, exec>>

\* CorsHandler.handle after its await: a response gets the CORS headers it
\* does not have yet; an error becomes a Response with the CORS headers,
\* which the catch block throws
CorsHandlerExit(s) ==
  /\ req[s].pc = "CorsExit"
  /\ LET out == req[s].ret
     IN IF out.kind = "response"
        THEN req' = [req EXCEPT
               ![s].pc = "done",
               ![s].ret = [out EXCEPT !.headers =
                  @ \cup {h \in CorsHandlerHeaders : ~HasHeader(out.headers, h[1])}]]
        ELSE req' = [req EXCEPT
               ![s].pc = "done",
               ![s].ret = [kind    |-> "throw",
                           status  |-> StatusOr500(out),
                           body    |-> IF out.body = <<>> THEN <<"text", out.error>>
                                                          ELSE out.body,
                           headers |-> {<<"content-type", "text/plain;charset=UTF-8">>}
                                         \cup CorsHandlerHeaders,
                           error   |-> "Response"]]
  /\ UNCHANGED <<program, cache, exec>>

\* ------------------------------------------------------------ src/api/test.js
\* RequestValidator.isValidPath(path): the path is resolved against apiUrl
ValidatorIsValidPath(path) ==
  LET url == Resolve(path, API_URL)
      api == ParseURL(API_URL)
  IN url.ok /\ api.ok /\ url.host = api.host

\* the text of an upstream answer's body
BodyText(body) == IF body = <<>> THEN "" ELSE body[2]

\* the catch block of ApiHandler.handle for the error err: the URL is
\* computed again for the log line, outside any try
ApiHandlerCatch(s, err, stage) ==
  IF ~PathFalsy(req[s].r) /\ ~Resolve(req[s].r.path[1], API_URL).ok
  THEN Finish(s, Throw("TypeError"), "Catch")
  ELSE req' = [req EXCEPT
         ![s].pc = "done",
         ![s].ret = ErrorResponse(BodyText(err.body), StatusOr500(err)),
         ![s].stage = stage,
         ![s].logs = Append(@, LogLine(req[s].r, StatusOr500(err), TRUE))]

\* ApiHandler.handle and fetchApi up to await fetch(fullUrl, options)
ApiHandlerHandle(s) ==
  /\ req[s].pc = "ApiHandlerHandle"
  /\ LET r       == req[s].r
         fullUrl == Serialize(Resolve(r.path[1], API_URL))
         cached  == IF r.method = "GET"
                    THEN RequestCacheGet(cache, CorsCacheKey(fullUrl))
                    ELSE "undefined"
     IN IF PathFalsy(r) \/ ~ValidatorIsValidPath(r.path[1])
        THEN ApiHandlerCatch(s,
               ThrowObject(400, <<"text", "Invalid or missing \"path\" parameter">>),
               "Validation")
        ELSE IF Truthy(cached)
        THEN req' = [req EXCEPT
               ![s].pc = "done",
               ![s].ret = Response(200, Stringify(cached), {}),
               ![s].stage = "CacheHit",
               ![s].logs = Append(@, LogLine(r, 200, FALSE))]
        ELSE IF r.method \in BodyMethods /\ (r.body = <<>> \/ ~JsonOk(r.body[2]))
        THEN ApiHandlerCatch(s, Throw("SyntaxError"), "InvalidJson")
        ELSE req' = [req EXCEPT
               ![s].pc = "awaitFetch",
               ![s].fetches = Append(@,
                  [FetchOptions(r, fullUrl) EXCEPT !.signal = FALSE])]
  /\ UNCHANGED <<program, cache, exec>>

\* fetchApi after its await, then ApiHandler.handle after its awaits
ApiHandlerReturn(s) ==
  /\ req[s].pc = "ApiHandlerReturn"
  /\ LET r           == req[s].r
         fullUrl     == Serialize(Resolve(r.path[1], API_URL))
         apiResponse == req[s].upstream
     IN IF req[s].ret.kind = "throw"
        THEN /\ ApiHandlerCatch(s, req[s].ret, "NetworkFailure")
             /\ cache' = cache
        ELSE IF ~Ok(apiResponse)
        THEN /\ ApiHandlerCatch(s, ThrowObject(apiResponse.status, apiResponse.body),
                                "UpstreamError")
             /\ cache' = cache
        ELSE IF ~JsonOk(apiResponse.body)
        THEN /\ ApiHandlerCatch(s, Throw("SyntaxError"), "UpstreamJson")
             /\ cache' = cache
        ELSE /\ cache' = IF r.method = "GET"
                         THEN MapSet(cache, CorsCacheKey(fullUrl),
                                     JsonValue(apiResponse.body))
                         ELSE cache
             /\ req' = [req EXCEPT
                  ![s].pc = "done",
                  ![s].ret = Response(200, Stringify(JsonValue(apiResponse.body)), {}),
                  ![s].stage = "Upstream",
                  ![s].logs = Append(@, LogLine(r, 200, FALSE))]
  /\ UNCHANGED <<program, exec>>

\* ------------------------------------------------------------ src/api/index.js, handler
\* path.includes('//')
IncludesSlashSlash(p) == \E i \in 1..(Len(p) - 1) : p[i] = "/" /\ p[i + 1] = "/"

\* isValidPath of lines 368-379; a path that starts with http:// or
\* https:// includes '//'
HandlerIsValidPath(p) == Len(p) > 0 /\ ~IncludesSlashSlash(p)

\* logRequest(method, path, status, error)
HandlerLogLine(method, path, status, isError) ==
  [method |-> method, path |-> path, status |-> status, error |-> isError]

\* API_URL + path, after a missing leading '/' has been added
HandlerUrl(p) == API_URL \o (IF p[1] = "/" THEN p ELSE <<"/">> \o p)

\* handler up to await fetch(fullUrl, options)
handler(s) ==
  /\ req[s].pc = "handler"
  /\ LET r        == req[s].r
         fullUrl  == ParseURL(HandlerUrl(r.path[1]))
         cacheKey == <<r.method, Serialize(fullUrl)>>
         log(status, isError) ==
           HandlerLogLine(r.method, <<Serialize(fullUrl)>>, status, isError)
     IN IF PathFalsy(r) \/ ~HandlerIsValidPath(r.path[1])
        THEN req' = [req EXCEPT
               ![s].pc = "done",
               ![s].ret = ErrorResponse("Invalid or missing \"path\" parameter", 400),
               ![s].stage = "Validation",
               ![s].logs = Append(@, HandlerLogLine(r.method, r.path, 400, TRUE))]
        ELSE IF ~fullUrl.ok
        THEN req' = [req EXCEPT
               ![s].pc = "done",
               ![s].ret = ErrorResponse("Invalid API URL configuration", 400),
               ![s].stage = "Url",
               ![s].logs = Append(@, HandlerLogLine(r.method, r.path, 400, TRUE))]
        ELSE IF r.method = "GET" /\ cacheKey \in CacheKeys(cache)
        THEN req' = [req EXCEPT
               ![s].pc = "done",
               ![s].ret = Response(200, Stringify(RequestCacheGet(cache, cacheKey)), {}),
               ![s].stage = "CacheHit",
               ![s].logs = Append(@, log(200, FALSE))]
        ELSE IF r.method \in BodyMethods /\ (r.body = <<>> \/ ~JsonOk(r.body[2]))
        THEN req' = [req EXCEPT
               ![s].pc = "done",
               ![s].ret = ErrorResponse("SyntaxError", 500),
               ![s].stage = "InvalidJson",
               ![s].logs = Append(@, log(500, TRUE))]
        ELSE req' = [req EXCEPT
               ![s].pc = "awaitFetch",
               ![s].fetches = Append(@,
                  [FetchOptions(r, Serialize(fullUrl)) EXCEPT !.signal = FALSE])]
  /\ UNCHANGED <<program, cache, exec>>

\* handler after await fetch(fullUrl, options)
handlerReturn(s) ==
  /\ req[s].pc = "handlerReturn"
  /\ LET r           == req[s].r
         fullUrl     == Serialize(ParseURL(HandlerUrl(r.path[1])))
         cacheKey    == <<r.method, fullUrl>>
         apiResponse == req[s].upstream
         log(status, isError) ==
           HandlerLogLine(r.method, <<fullUrl>>, status, isError)
     IN IF req[s].ret.kind = "throw"
        THEN /\ cache' = cache
             /\ req' = [req EXCEPT
                  ![s].pc = "done",
                  ![s].ret = ErrorResponse(req[s].ret.error, 500),
                  ![s].stage = "NetworkFailure",
                  ![s].logs = Append(@, log(500, TRUE))]
        ELSE IF ~Ok(apiResponse)
        THEN /\ cache' = cache
             /\ req' = [req EXCEPT
                  ![s].pc = "done",
                  ![s].ret = ErrorResponse("API returned", 500),
                  ![s].stage = "UpstreamError",
                  ![s].logs = @ \o <<log(apiResponse.status, TRUE), log(500, TRUE)>>]
        ELSE IF ~JsonOk(apiResponse.body)
        THEN /\ cache' = cache
             /\ req' = [req EXCEPT
                  ![s].pc = "done",
                  ![s].ret = ErrorResponse("SyntaxError", 500),
                  ![s].stage = "UpstreamJson",
                  ![s].logs = Append(@, log(500, TRUE))]
        ELSE /\ cache' = IF r.method = "GET"
                         THEN MapSet(cache, cacheKey, JsonValue(apiResponse.body))
                         ELSE cache
             /\ req' = [req EXCEPT
                  ![s].pc = "done",
                  ![s].ret = Response(200, Stringify(JsonValue(apiResponse.body)), {}),
                  ![s].stage = "Upstream",
                  ![s].logs = Append(@, log(200, FALSE))]
  /\ UNCHANGED <<program, exec>>

\* ------------------------------------------------------------ src/unnamed/part_004
\* The chain of part_004: MethodValidationHandler, CorsHandler,
\* LoggingHandler, ValidationHandler, CacheHandler, ApiFetchHandler.  Its
\* stages signal failure by throwing and no handler catches for the client.
\* Its cache is an unbounded Map of {body, headers} objects.

Part4MethodValidationHandler(s) ==
  /\ req[s].pc = "Part4MethodValidation"
  /\ IF ~Includes(ALLOWED_METHODS, req[s].r.method)
     THEN Finish(s, Response(405,
                             <<"text", "Method " \o req[s].r.method \o " not allowed">>,
                             {<<"Allow", Join(ALLOWED_METHODS, ", ")>>,
                              <<"Content-Type", "text/plain">>}),
                 "MethodValidation")
     ELSE Goto(s, "Part4Cors")
  /\ UNCHANGED <<program, cache, exec>>

\* CorsHandler.handle up to its await: the preflight answer
Part4CorsHandler(s) ==
  /\ req[s].pc = "Part4Cors"
  /\ IF req[s].r.method = "OPTIONS"
     THEN Finish(s, Response(200, <<>>,
                    {<<"Access-Control-Allow-Origin", "*">>,
                     <<"Access-Control-Allow-Methods",
                       "GET, POST, PUT, PATCH, DELETE, OPTIONS">>,
                     <<"Access-Control-Allow-Headers", "Content-Type, Authorization">>,
                     <<"Access-Control-Max-Age", "86400">>}),
                 "Options")
     ELSE Goto(s, "Part4Logging")
  /\ UNCHANGED <<program, cache, exec>>

\* LoggingHandler.handle up to its await: the URL for the log line is built
\* outside the try
Part4LoggingHandler(s) ==
  /\ req[s].pc = "Part4Logging"
  /\ IF getFullUrl(req[s].r).threw
     THEN Finish(s, Throw("TypeError"), "Logging")
     ELSE Goto(s, "Part4Validation")
  /\ UNCHANGED <<program, cache, exec>>

Part4ValidationHandler(s) ==
  /\ req[s].pc = "Part4Validation"
  /\ IF PathFalsy(req[s].r) \/ ~ValidatorIsValidPath(req[s].r.path[1])
     THEN Return(s, "Part4LoggingExit",
                 ThrowObject(400, <<"text", "Invalid or missing \"path\" parameter">>),
                 "Validation")
     ELSE Goto(s, "Part4Cache")
  /\ UNCHANGED <<program, cache, exec>>

\* the object CacheHandler stores for a response
Part4CacheEntry(response) ==
  [body |-> Stringify(JsonValue(response.body)), headers |-> response.headers]

\* CacheHandler.handle up to its await: a stored object is always truthy
Part4CacheHandler(s) ==
  /\ req[s].pc = "Part4Cache"
  /\ LET r       == req[s].r
         fullUrl == Serialize(Resolve(r.path[1], API_URL))
         key     == CorsCacheKey(fullUrl)
     IN IF r.method = "GET" /\ key \in CacheKeys(cache)
        THEN LET cachedResponse == RequestCacheGet(cache, key)
             IN Return(s, "Part4LoggingExit",
                       Response(200, cachedResponse.body,
                                {<<"Content-Type", "application/json">>}
                                  \cup cachedResponse.headers),
                       "CacheHit")
        ELSE Goto(s, "Part4ApiFetch")
  /\ UNCHANGED <<program, cache, exec>>

\* ApiFetchHandler.handle up to its await fetch(...): request.json() is not
\* in a try
Part4ApiFetchHandler(s) ==
  /\ req[s].pc = "Part4ApiFetch"
  /\ LET r       == req[s].r
         fullUrl == Serialize(Resolve(r.path[1], API_URL))
     IN IF r.method \in BodyMethods /\ (r.body = <<>> \/ ~JsonOk(r.body[2]))
        THEN Return(s, "Part4LoggingExit", Throw("SyntaxError"), "InvalidJson")
        ELSE req' = [req EXCEPT
               ![s].pc = "awaitFetch",
               ![s].fetches = Append(@,
                  [FetchOptions(r, fullUrl) EXCEPT !.signal = FALSE])]
  /\ UNCHANGED <<program, cache, exec>>

\* what ApiFetchHandler makes of an ok upstream answer
Part4ApiResult(apiResponse) ==
  IF ~IncludesJson(HeaderOf(apiResponse.headers, "content-type"))
  THEN apiResponse
  ELSE IF JsonOk(apiResponse.body)
  THEN Response(apiResponse.status, Stringify(JsonValue(apiResponse.body)),
                {<<"Content-Type", "application/json">>} \cup apiResponse.headers)
  ELSE ThrowObject(500, <<"text", "Failed to parse JSON response from API">>)

\* ApiFetchHandler.handle after its await, then CacheHandler.handle after its
\* await
Part4ApiFetchReturn(s) ==
  /\ req[s].pc = "Part4ApiFetchReturn"
  /\ LET r           == req[s].r
         fullUrl     == Serialize(Resolve(r.path[1], API_URL))
         apiResponse == req[s].upstream
         response    == Part4ApiResult(apiResponse)
     IN IF ~Ok(apiResponse)
        THEN /\ cache' = cache
             /\ Return(s, "Part4LoggingExit",
                       ThrowObject(apiResponse.status, apiResponse.body),
                       "UpstreamError")
        ELSE IF response.kind = "throw"
        THEN /\ cache' = cache
             /\ Return(s, "Part4LoggingExit", response, "UpstreamJson")
        ELSE /\ cache' = IF /\ r.method = "GET"
                            /\ IncludesJson(HeaderOf(response.headers, "content-type"))
                            /\ JsonOk(response.body)
                         THEN MapSet(cache, CorsCacheKey(fullUrl),
                                     Part4CacheEntry(response))
                         ELSE cache
             /\ Return(s, "Part4LoggingExit", response, "Upstream")
  /\ UNCHANGED <<program, exec>>

\* LoggingHandler.handle after its await: a response is logged as 200; an
\* error is logged with its status and rethrown
Part4LoggingExit(s) ==
  /\ req[s].pc = "Part4LoggingExit"
  /\ LET out == req[s].ret
     IN req' = [req EXCEPT
          ![s].pc = "Part4Exit",
          ![s].logs = Append(@, IF out.kind = "response"
                                THEN LogLine(req[s].r, 200, FALSE)
                                ELSE LogLine(req[s].r, StatusOr500(out), TRUE))]
  /\ UNCHANGED <<program, cache, exec>>

\* CorsHandler.handle after its await: the response gets
\* Access-Control-Allow-Origin; an error passes through
Part4CorsHandlerExit(s) ==
  /\ req[s].pc = "Part4Exit"
  /\ LET out == req[s].ret
     IN req' = [req EXCEPT
          ![s].pc = "done",
          ![s].ret = IF out.kind = "response"
                     THEN [out EXCEPT !.headers =
                             SetHeader(@, "Access-Control-Allow-Origin", "*")]
                     ELSE out]
  /\ UNCHANGED <<program, cache, exec>>

\* ------------------------------------------------------------ specification
ChainStep(s) ==
  \/ MethodValidationHandler(s)
  \/ BodySizeHandler(s)
  \/ ContentTypeHandler(s)
  \/ LoggingHandler(s)
  \/ ValidationHandler(s)
  \/ TimeoutHandler(s)
  \/ CacheHandler(s)
  \/ ApiFetchHandler(s)
  \/ \E u \in UpstreamResponses : UpstreamRespond(s, u)
  \/ NetworkFailure(s)
  \/ TimerFires(s)
  \/ ApiFetchReturn(s)
  \/ CacheStore(s)
  \/ TimeoutExit(s)
  \/ LoggingExit(s)
  \/ Recycle(s)

SimpleStep(s) ==
  \/ ViteGet(s)
  \/ ViteReturn(s)
  \/ RouteGet(s)
  \/ RouteReturn(s)
  \/ Proxy1Middleware(s)
  \/ Proxy1Strategy(s)
  \/ Proxy1Return(s)
  \/ Proxy2Handle(s)
  \/ Proxy2Return(s)
  \/ Part8Get(s)
  \/ Part8Return(s)

CorsChainStep(s) ==
  \/ CorsMethodValidationHandler(s)
  \/ CorsBodySizeHandler(s)
  \/ CorsHandler(s)
  \/ CorsLoggingHandler(s)
  \/ CorsValidationHandler(s)
  \/ CorsCacheHandler(s)
  \/ CorsApiFetchHandler(s)
  \/ CorsApiFetchReturn(s)
  \/ CorsLoggingExit(s)
  \/ CorsHandlerExit(s)

Part4ChainStep(s) ==
  \/ Part4MethodValidationHandler(s)
  \/ Part4CorsHandler(s)
  \/ Part4LoggingHandler(s)
  \/ Part4ValidationHandler(s)
  \/ Part4CacheHandler(s)
  \/ Part4ApiFetchHandler(s)
  \/ Part4ApiFetchReturn(s)
  \/ Part4LoggingExit(s)
  \/ Part4CorsHandlerExit(s)

\* requests are served one at a time
Next ==
  \/ \E r \in Requests : Start("s1", r)
  \/ ChainStep("s1")
  \/ SimpleStep("s1")
  \/ CorsChainStep("s1")
  \/ Part4ChainStep("s1")
  \/ ApiHandlerHandle("s1")
  \/ ApiHandlerReturn("s1")
  \/ handler("s1")
  \/ handlerReturn("s1")

Spec == Init /\ [][Next]_vars

\* Two requests to the chain handler overlap.  JavaScript runs a handler to
\* its next await before anything else runs, so a slot whose handler is in
\* the middle of synchronous code keeps the processor; the slots interleave
\* where the code awaits: at the fetch and at the read of its answer.
SyncPcs ==
  {"MethodValidation", "BodySize", "ContentType", "Logging", "Validation",
   "Timeout", "Cache", "ApiFetch", "TimeoutExit", "LoggingExit"}

MayRun(s) == \A t \in Slots \ {s} : req[t].pc \notin SyncPcs

OverlapRequests ==
  {r \in Requests : r.method = "GET" /\ r.path \in {PathA, PathB}}

OverlapAnswers ==
  {u \in UpstreamResponses : Ok(u) /\ JsonOk(u.body)}

InitOverlap ==
  /\ program = "chain"
  /\ cache = <<>>
  /\ req = [s \in Slots |-> IdleSlot]
  /\ exec = NoExecute

NextOverlap ==
  \E s \in Slots :
    \/ MayRun(s) /\ \E r \in OverlapRequests : StartOverlap(s, r)
    \/ MayRun(s) /\ MethodValidationHandler(s)
    \/ MayRun(s) /\ BodySizeHandler(s)
    \/ MayRun(s) /\ ContentTypeHandler(s)
    \/ MayRun(s) /\ LoggingHandler(s)
    \/ MayRun(s) /\ ValidationHandler(s)
    \/ MayRun(s) /\ TimeoutHandler(s)
    \/ MayRun(s) /\ CacheHandler(s)
    \/ MayRun(s) /\ ApiFetchHandler(s)
    \/ MayRun(s) /\ \E u \in OverlapAnswers : UpstreamRespond(s, u)
    \/ MayRun(s) /\ NetworkFailure(s)
    \/ MayRun(s) /\ TimerFires(s)
    \/ MayRun(s) /\ ApiFetchReturn(s)
    \/ MayRun(s) /\ CacheStore(s)
    \/ MayRun(s) /\ TimeoutExit(s)
    \/ MayRun(s) /\ LoggingExit(s)
    \/ MayRun(s) /\ Recycle(s)

SpecOverlap == InitOverlap /\ [][NextOverlap]_vars

\* MiddlewareChain.execute on its own: a chain of up to MaxMiddlewares
\* middlewares, registered in any order, executes on a request.
RECURSIVE SeqsUpTo(_, _)
SeqsUpTo(S, n) ==
  IF n = 0 THEN {<<>>}
  ELSE SeqsUpTo(S, n - 1)
         \cup {Append(q, x) : q \in {p \in SeqsUpTo(S, n - 1) : Len(p) = n - 1}, x \in S}

ExecuteRequests == {BodyLess("GET", PathA), BodyLess("TRACE", PathA)}

InitExecute ==
  /\ program = "proxy1"
  /\ cache = <<>>
  /\ req = [s \in Slots |-> IdleSlot]
  /\ exec \in {ExecuteStart(ms, AsValue(r)) :
                 ms \in SeqsUpTo(MiddlewareNames, MaxMiddlewares),
                 r \in ExecuteRequests}

\* for (const middleware of this.middlewares) { ... }
ExecuteLoop ==
  /\ exec.pc = "loop"
  /\ exec.i <= Len(exec.middlewares)
  /\ exec' = ExecuteIteration(exec)
  /\ UNCHANGED <<program, cache, req>>

\* return result (after the loop)
ExecuteReturn ==
  /\ exec.pc = "loop"
  /\ exec.i > Len(exec.middlewares)
  /\ exec' = ExecuteLoopEnd(exec)
  /\ UNCHANGED <<program, cache, req>>

NextExecute == ExecuteLoop \/ ExecuteReturn

SpecExecute == InitExecute /\ [][NextExecute]_vars

\* ------------------------------------------------------------ claims
Chain == program = "chain"

Done(s) == req[s].pc = "done"

Answered(s, status) ==
  Done(s) /\ req[s].ret.kind = "response" /\ req[s].ret.status = status

ApiHost == ParseURL(API_URL).host

\* the `path` parameter is missing (or empty)
PathMissing(r) == r.path = <<>> \/ r.path[1] = <<>>

\* the `path` parameter resolves, against API_URL, to another hostname
PathForeign(r) ==
  /\ ~PathMissing(r)
  /\ Resolve(r.path[1], API_URL).ok
  /\ Resolve(r.path[1], API_URL).host # ApiHost

FetchesOf(s) == {req[s].fetches[i] : i \in 1..Len(req[s].fetches)}

EarlyGuards == {"MethodValidation", "BodySize", "ContentType"}

\* C1, as stated: in the chain handler every upstream fetch goes to the
\* hostname of API_URL, and a request whose path is missing or resolves to
\* another hostname is answered 400 and causes no fetch.
C1_AsStated ==
  Chain =>
    \A s \in Slots :
      /\ \A f \in FetchesOf(s) : ParseURL(f.url).host = ApiHost
      /\ (PathMissing(req[s].r) \/ PathForeign(req[s].r)) =>
           /\ req[s].fetches = <<>>
           /\ Done(s) => Answered(s, 400)

\* C1, amended: every upstream fetch of the chain handler goes to the
\* hostname of API_URL; a request whose path is missing or resolves to
\* another hostname never causes a fetch, and it is answered 400 unless an
\* earlier guard (method, body size, content type) already answered it with
\* 405, 413 or 415.
C1_HostChecked ==
  Chain =>
    \A s \in Slots :
      /\ \A f \in FetchesOf(s) : ParseURL(f.url).host = ApiHost
      /\ (PathMissing(req[s].r) \/ PathForeign(req[s].r)) =>
           /\ req[s].fetches = <<>>
           /\ Done(s) =>
                \/ Answered(s, 400) /\ req[s].stage = "Validation"
                \/ /\ req[s].stage \in EarlyGuards
                   /\ req[s].ret.kind = "response"
                   /\ req[s].ret.status \in {405, 413, 415}

\* a request for another host passed the early guards and was answered 400
C1_Witness ==
  \E s \in Slots :
    Chain /\ PathForeign(req[s].r) /\ Answered(s, 400) /\ req[s].stage = "Validation"

\* C2: every upstream fetch carries Authorization: Bearer <API_ACCESS_TOKEN>,
\* in the chain handler and in the single-function GET handlers alike.
C2_FetchAuthorized ==
  \A s \in Slots :
    \A f \in FetchesOf(s) :
      <<"Authorization", "Bearer " \o API_ACCESS_TOKEN>> \in f.headers

GuardStages == EarlyGuards \cup {"Validation"}

\* C3: when a guard stage of the chain handler (method, body size, content
\* type, path validation) rejects a request, no later stage runs: the
\* timeout is not armed, no fetch is issued, the cache is as it was.
C3_ShortCircuit ==
  Chain =>
    \A s \in Slots :
      req[s].stage \in GuardStages =>
        /\ req[s].pc \in {"LoggingExit", "done"}
        /\ req[s].timer = "unset"
        /\ req[s].fetches = <<>>
        /\ cache = req[s].cache0

\* a request rejected by the path validator while the cache holds entries
C3_Witness ==
  \E s \in Slots :
    Chain /\ Done(s) /\ req[s].stage = "Validation" /\ cache # <<>>

KeyOf(r) == generateCacheKey(r, getFullUrl(r).url[1])

\* C4: a GET whose cache key is present in the cache is answered 200 with
\* the data stored under that key, without an upstream fetch.
C4_HitServed ==
  Chain =>
    \A s \in Slots :
      (/\ req[s].r.method = "GET"
       /\ req[s].timer # "unset"
       /\ KeyOf(req[s].r) \in CacheKeys(req[s].cache0)) =>
        /\ req[s].fetches = <<>>
        /\ Done(s) =>
             /\ Answered(s, 200)
             /\ req[s].ret.body =
                  Stringify(RequestCacheGet(req[s].cache0, KeyOf(req[s].r)))

\* C5: the cache never holds more than maxSize entries.
C5_Bounded == Len(cache) <= MaxSize

\* two requests missed and stored; the cache is full and the key the first
\* one stored has been evicted again
C5_Witness ==
  \E s \in Slots : \E t \in Slots \ {s} :
    /\ Done(s) /\ req[s].stage = "CacheMiss"
    /\ Done(t) /\ req[t].stage = "CacheMiss"
    /\ Len(cache) = MaxSize
    /\ KeyOf(req[s].r) \notin CacheKeys(cache)

Violates405(r) == ~Includes(ALLOWED_METHODS, r.method)

Violates413(r) ==
  /\ r.method \in BodyMethods
  /\ r.contentLength # <<>>
  /\ r.contentLength[1] > MAX_BODY_SIZE

Violates415(r) ==
  /\ r.method \in BodyMethods
  /\ (r.contentType = <<>> \/ ~IncludesJson(r.contentType[1]))

Violates400(r) == PathMissing(r) \/ PathForeign(r)

\* C6: the chain handler checks method, body size, content type and path in
\* this order and only then arms the timeout, looks up the cache and
\* fetches; a request violating several checks gets the response of the
\* earliest one (405 before 413 before 415 before 400).
C6_Order ==
  Chain =>
    \A s \in Slots :
      LET r == req[s].r
      IN /\ (req[s].timer # "unset" \/ req[s].fetches # <<>>) =>
              ~(Violates405(r) \/ Violates413(r) \/ Violates415(r) \/ Violates400(r))
         /\ Done(s) =>
              /\ Violates405(r) => Answered(s, 405)
              /\ (~Violates405(r) /\ Violates413(r)) => Answered(s, 413)
              /\ (~Violates405(r) /\ ~Violates413(r) /\ Violates415(r)) =>
                   Answered(s, 415)
              /\ (~Violates405(r) /\ ~Violates413(r) /\ ~Violates415(r)
                    /\ Violates400(r)) => Answered(s, 400)

\* a request that violates three checks at once is answered 413
C6_Witness ==
  \E s \in Slots :
    /\ Chain /\ Answered(s, 413)
    /\ Violates413(req[s].r) /\ Violates415(req[s].r) /\ Violates400(req[s].r)

MethodChecked == program \in {"chain", "proxy1", "proxy2"}

AllowedMethods == IF Chain THEN ALLOWED_METHODS ELSE PROXY_ALLOWED_METHODS

\* C7, as stated: a request whose method is not allowed is answered 405 (by
\* the chain handler with an Allow header listing the allowed methods), and
\* a request whose method is allowed is never answered 405.
C7_AsStated ==
  MethodChecked =>
    \A s \in Slots :
      Done(s) =>
        IF Includes(AllowedMethods, req[s].r.method)
        THEN ~Answered(s, 405)
        ELSE /\ Answered(s, 405)
             /\ Chain =>
                  <<"Allow", "GET, POST, PUT, PATCH, DELETE, OPTIONS">>
                    \in req[s].ret.headers

\* C7, amended: a request whose method is not allowed is answered 405 (by
\* the chain handler with an Allow header listing the allowed methods); a
\* request whose method is allowed is never rejected by the method check,
\* and is answered 405 only when the chain handler relays a 405 that the
\* upstream API gave to its fetch.
C7_MethodCheck ==
  MethodChecked =>
    \A s \in Slots :
      Done(s) =>
        IF Includes(AllowedMethods, req[s].r.method)
        THEN Answered(s, 405) =>
               /\ Chain
               /\ req[s].fetches # <<>>
               /\ req[s].upstream.status = 405
        ELSE /\ Answered(s, 405)
             /\ Chain =>
                  <<"Allow", "GET, POST, PUT, PATCH, DELETE, OPTIONS">>
                    \in req[s].ret.headers

\* the chain handler rejected a method outside its list
C7_Witness ==
  \E s \in Slots :
    Chain /\ Answered(s, 405) /\ req[s].r.method = "TRACE"
      /\ req[s].stage = "MethodValidation"

\* C8: a POST, PUT or PATCH whose body is larger than MAX_BODY_SIZE is
\* answered 413 and never forwarded upstream, with or without a
\* Content-Length header.
C8_OversizeRejected ==
  Chain =>
    \A s \in Slots :
      (/\ req[s].r.method \in BodyMethods
       /\ req[s].r.body # <<>>
       /\ req[s].r.body[1] > MAX_BODY_SIZE) =>
        /\ req[s].fetches = <<>>
        /\ Done(s) => Answered(s, 413)

BodyUnparsable(r) == r.body = <<>> \/ ~JsonOk(r.body[2])

InvalidJsonBody(s) ==
  Answered(s, 400) /\ req[s].ret.body = <<"text", "Invalid JSON body">>

\* C9, as stated: a POST, PUT or PATCH with a malformed body is rejected
\* before any fetch: 415 if its Content-Type does not include
\* application/json, 400 'Invalid JSON body' if its body is not JSON.
C9_AsStated ==
  Chain =>
    \A s \in Slots :
      LET r == req[s].r
      IN (r.method \in BodyMethods /\ (Violates415(r) \/ BodyUnparsable(r))) =>
           /\ req[s].fetches = <<>>
           /\ Done(s) =>
                /\ Violates415(r) => Answered(s, 415)
                /\ (~Violates415(r) /\ BodyUnparsable(r)) => InvalidJsonBody(s)

\* C9, amended: a POST, PUT or PATCH with a malformed body never causes an
\* upstream fetch.  If its Content-Type does not include application/json
\* the response is 415, unless the body-size check answered 413 first; if
\* its Content-Type is accepted and its body is not JSON the response is 400
\* 'Invalid JSON body', unless the body-size check answered 413 or the path
\* check answered 400 (or the path did not parse) first.
C9_MalformedRejected ==
  Chain =>
    \A s \in Slots :
      LET r == req[s].r
      IN (r.method \in BodyMethods /\ (Violates415(r) \/ BodyUnparsable(r))) =>
           /\ req[s].fetches = <<>>
           /\ Done(s) =>
                /\ Violates415(r) =>
                     IF Violates413(r) THEN Answered(s, 413) ELSE Answered(s, 415)
                /\ (~Violates415(r) /\ BodyUnparsable(r)) =>
                     IF Violates413(r) THEN Answered(s, 413)
                     ELSE IF Violates400(r)
                       THEN Answered(s, 400) /\ req[s].stage = "Validation"
                     ELSE IF getFullUrl(r).threw
                       THEN req[s].ret.kind = "throw"
                     ELSE InvalidJsonBody(s)

\* a POST with an accepted content type and a body that is not JSON was
\* answered 400 'Invalid JSON body'
C9_Witness ==
  \E s \in Slots :
    /\ Chain /\ InvalidJsonBody(s)
    /\ req[s].r.method = "POST" /\ ~Violates415(req[s].r)
    /\ BodyUnparsable(req[s].r)

\* C10: every response the chain handler returns carries CORS_HEADERS.
C10_CorsOnEveryResponse ==
  Chain =>
    \A s \in Slots :
      (Done(s) /\ req[s].ret.kind = "response") =>
        CORS_HEADERS \subseteq req[s].ret.headers

\* C11: every request the chain handler has handled emitted a log line
\* with its method, its upstream URL and the status of its outcome,
\* whatever the outcome (response, rejection by a stage, error).
C11_AlwaysLogged ==
  Chain =>
    \A s \in Slots :
      Done(s) =>
        \E i \in 1..Len(req[s].logs) :
          /\ req[s].logs[i].method = req[s].r.method
          /\ req[s].logs[i].path = getFullUrl(req[s].r).url
          /\ req[s].logs[i].status =
               (IF req[s].ret.kind = "response" THEN req[s].ret.status ELSE 500)

CorsChain == program = "cors"

\* a downstream stage of part_000's chain failed with an error
CorsErrorStages == {"Validation", "InvalidJson", "UpstreamError"}

\* the status of the error of that stage
CorsErrorStatus(s) ==
  CASE req[s].stage = "UpstreamError" -> req[s].upstream.status
    [] OTHER -> 400

\* C12: in the chain with a CorsHandler (part_000), when a downstream stage
\* fails with an error (invalid path, invalid JSON body, upstream non-ok
\* status) the exported handler resolves to a response that has the
\* error's status and carries the CORS headers.
C12_ErrorBecomesCorsResponse ==
  CorsChain =>
    \A s \in Slots :
      (Done(s) /\ req[s].stage \in CorsErrorStages) =>
        /\ req[s].ret.kind = "response"
        /\ req[s].ret.status = CorsErrorStatus(s)
        /\ CORS_HEADERS \subseteq req[s].ret.headers

\* the key of request r spelled out: method, upstream URL, Accept header,
\* presence of an Authorization header
ExactKey(r) ==
  <<r.method, getFullUrl(r).url[1], r.accept,
    IF r.authorization # <<>> THEN <<"present">> ELSE <<>> >>

\* the keys in cache c that have the method and the upstream URL of r
SameUrlKeys(r, c) ==
  {k \in CacheKeys(c) : k[1] = r.method /\ k[2] = getFullUrl(r).url[1]}

\* a GET that reached the cache lookup of the chain handler
LookedUp(s) == Chain /\ req[s].r.method = "GET" /\ req[s].timer # "unset"

\* C13, as stated: the cache is keyed by method and upstream URL only; a
\* GET that resolves to the URL of a stored, not evicted entry is served
\* from the cache without a fetch, whatever its headers.  (Entries whose
\* stored value is falsy are left out here: the lookup skips them for any
\* key.)
C13_AsStated ==
  \A s \in Slots :
    (/\ LookedUp(s)
     /\ \E k \in SameUrlKeys(req[s].r, req[s].cache0) :
          Truthy(RequestCacheGet(req[s].cache0, k))) =>
      req[s].fetches = <<>>

\* C13, amended: the cache is keyed by method, upstream URL, the Accept
\* header and the presence of an Authorization header.  A GET is served from
\* the cache only from the entry stored under exactly this key; a GET whose
\* own key is not stored issues its own fetch, even when an entry for the
\* same method and URL (and other headers) is stored.
C13_KeyedByHeaders ==
  \A s \in Slots :
    (LookedUp(s) /\ Done(s)) =>
      /\ req[s].stage = "CacheHit" =>
           /\ ExactKey(req[s].r) \in CacheKeys(req[s].cache0)
           /\ req[s].ret.body =
                Stringify(RequestCacheGet(req[s].cache0, ExactKey(req[s].r)))
           /\ req[s].fetches = <<>>
      /\ ExactKey(req[s].r) \notin CacheKeys(req[s].cache0) =>
           req[s].fetches # <<>>

\* a GET with an Accept header found an entry for its method and URL stored
\* without that header, and fetched
C13_Witness ==
  \E s \in Slots :
    /\ LookedUp(s) /\ Done(s)
    /\ req[s].r.accept # <<>>
    /\ SameUrlKeys(req[s].r, req[s].cache0) # {}
    /\ ExactKey(req[s].r) \notin CacheKeys(req[s].cache0)
    /\ req[s].fetches # <<>>

\* position of key k in cache c
KeyIndex(c, k) == CHOOSE i \in 1..Len(c) : c[i].key = k

\* the keys present in both caches are in the same relative order
OrderKept(c, d) ==
  \A a, b \in CacheKeys(c) \cap CacheKeys(d) :
    KeyIndex(c, a) < KeyIndex(c, b) <=> KeyIndex(d, a) < KeyIndex(d, b)

\* a key that d has and c had not is the last of d
NewKeyLast(c, d) ==
  \A k \in CacheKeys(d) \ CacheKeys(c) : d[Len(d)].key = k

\* slot s calls RequestCache.set in this step
Stores(s) == req[s].pc = "CacheStore" /\ req'[s].stage = "CacheMiss"

\* slot s gets a cache hit in this step
Hits(s) == req[s].pc = "Cache" /\ req'[s].stage = "CacheHit"

\* C14: eviction is least-recently-inserted.  The cache changes only by
\* RequestCache.set, and a cache hit (RequestCache.get) leaves it as it is.
\* The order of the keys is their insertion order: a set keeps the order of
\* the keys it does not remove and puts a key that is not among them last.
\* A set on a cache that holds maxSize entries removes the earliest
\* inserted key and no other, then inserts its own key.
C14_EvictsOldest ==
  [][Chain =>
      /\ (cache' # cache) => \E s \in Slots : Stores(s)
      /\ \A s \in Slots : Hits(s) => cache' = cache
      /\ \A s \in Slots :
           Stores(s) =>
             LET k    == KeyOf(req[s].r)
                 kept == IF Len(cache) >= MaxSize THEN Tail(cache) ELSE cache
             IN /\ OrderKept(kept, cache')
                /\ NewKeyLast(kept, cache')
                /\ CacheKeys(cache') = CacheKeys(kept) \cup {k}
                /\ Len(cache) >= MaxSize =>
                     CacheKeys(kept) = CacheKeys(cache) \ {cache[1].key}
   ]_vars

\* a miss stored a new key into a full cache: the oldest key is gone, the
\* others are kept, the new key is the newest
C14_Witness ==
  \E s \in Slots :
    /\ Chain /\ Done(s) /\ req[s].stage = "CacheMiss"
    /\ Len(req[s].cache0) = MaxSize
    /\ KeyOf(req[s].r) \notin CacheKeys(req[s].cache0)
    /\ req[s].cache0[1].key \notin CacheKeys(cache)
    /\ \A i \in 2..MaxSize : req[s].cache0[i].key \in CacheKeys(cache)
    /\ cache[Len(cache)].key = KeyOf(req[s].r)

\* C15: the upstream fetch uses the method of the inbound request; for
\* POST, PUT and PATCH it carries the JSON serialisation of the parsed
\* inbound body and Content-Type application/json; for every other method
\* it carries no body.
C15_FetchMirrorsRequest ==
  \A s \in Slots :
    \A f \in FetchesOf(s) :
      LET r == req[s].r
      IN /\ f.method = r.method
         /\ IF r.method \in BodyMethods
            THEN /\ JsonOk(r.body[2])
                 /\ f.body = Stringify(JsonValue(r.body[2]))
                 /\ <<"Content-Type", "application/json">> \in f.headers
            ELSE f.body = <<>>

\* ApiHandler.fetchApi of test.js forwarded a PATCH whose body was JSON
\* written with other white space
C15_Witness ==
  \E s \in Slots :
    /\ program = "test"
    /\ req[s].r.method = "PATCH"
    /\ req[s].r.body[2][1] = "json-spaced"
    /\ req[s].fetches # <<>>

\* the handlers that keep a cache
Caching == program \in {"chain", "cors", "test", "handler"}

\* C16: only GET requests use the cache: a request of another method is
\* never served from the cache and leaves the cache as it found it, and
\* every key in the cache was stored for a GET.
C16_OnlyGetUsesCache ==
  Caching =>
    /\ \A k \in CacheKeys(cache) : k[1] = "GET"
    /\ \A s \in Slots :
         (req[s].pc # "idle" /\ req[s].r.method # "GET") =>
           /\ cache = req[s].cache0
           /\ req[s].stage # "CacheHit"

\* the single function `handler` answered a DELETE from upstream while the
\* cache held an entry
C16_Witness ==
  \E s \in Slots :
    /\ program = "handler"
    /\ req[s].r.method = "DELETE"
    /\ Answered(s, 200) /\ req[s].fetches # <<>>
    /\ cache # <<>>

\* the entries of cache c stored under key k
EntriesOf(c, k) == {i \in 1..Len(c) : c[i].key = k}

\* slots s and t hold two finished GET requests with the same key that
\* both missed the cache and stored
BothMissed(s, t) ==
  /\ s # t
  /\ Done(s) /\ req[s].stage = "CacheMiss"
  /\ Done(t) /\ req[t].stage = "CacheMiss"
  /\ KeyOf(req[s].r) = KeyOf(req[t].r)

\* C17: requests are not coordinated.  Two GET requests with the same key
\* that both missed the cache each issued their own fetch and each got a
\* 200 with their own data; the cache then holds exactly one entry for the
\* key, and a store always leaves the storing request's data under the key,
\* so the entry holds the data of whichever request stored last.
C17_Uncoordinated ==
  /\ [](\A s, t \in Slots :
          BothMissed(s, t) =>
            /\ Len(req[s].fetches) = 1 /\ Len(req[t].fetches) = 1
            /\ Answered(s, 200) /\ Answered(t, 200)
            /\ req[s].ret.body = req[s].upstream.body
            /\ req[t].ret.body = req[t].upstream.body
            /\ Cardinality(EntriesOf(cache, KeyOf(req[s].r))) = 1
            /\ Stringify(RequestCacheGet(cache, KeyOf(req[s].r)))
                 \in {req[s].ret.body, req[t].ret.body})
  /\ [][\A s \in Slots :
          Stores(s) =>
            /\ Cardinality(EntriesOf(cache', KeyOf(req[s].r))) = 1
            /\ RequestCacheGet(cache', KeyOf(req[s].r)) = JsonValue(req[s].ret.body)
       ]_vars

\* two overlapping GETs for the same key were answered with different,
\* truthy data (so neither found the other's entry); the cache holds the
\* data of one of them
C17_Witness ==
  \E s, t \in Slots :
    /\ BothMissed(s, t)
    /\ req[s].ret.body = Stringify("d1")
    /\ req[t].ret.body = Stringify("d2")
    /\ RequestCacheGet(cache, KeyOf(req[s].r)) = "d2"

\* C18: in the strategy-based proxy (part_001), the URL fetched for a GET
\* that passed the middlewares is API_URL resolved with the value of the
\* request's `path` parameter.
C18_FetchesRequestedPath ==
  program = "proxy1" =>
    \A s \in Slots :
      \A f \in FetchesOf(s) :
        (~PathFalsy(req[s].r) /\ Resolve(req[s].r.path[1], API_URL).ok) =>
          f.url = Serialize(Resolve(req[s].r.path[1], API_URL))

\* the upstream API answered the fetch of slot s with a non-ok status
UpstreamNotOk(s) == req[s].upstream.kind = "response" /\ ~Ok(req[s].upstream)

\* C19: when the upstream API answers a request of the chain handler with a
\* non-ok status, whatever the method, the client receives that status and
\* the upstream's error text as the body (unless the request timed out
\* while the error text was being read).
C19_UpstreamErrorRelayed ==
  Chain =>
    \A s \in Slots :
      (Done(s) /\ UpstreamNotOk(s) /\ req[s].timer # "fired") =>
        /\ Answered(s, req[s].upstream.status)
        /\ req[s].ret.body = req[s].upstream.body

\* the request of slot s ended in an error: its fetch was answered with a
\* non-ok status, or it was answered with an error status, or the handler
\* threw
EndedInError(s) ==
  \/ UpstreamNotOk(s)
  \/ Done(s) /\ req[s].ret.kind = "throw"
  \/ Done(s) /\ req[s].ret.kind = "response" /\ req[s].ret.status >= 400

\* C20: only successful upstream responses are cached: a request that ends
\* in an error (guard rejection, upstream non-ok status, network failure,
\* unparsable upstream body, timeout) leaves the cache as it found it.
C20_ErrorsNotCached ==
  Caching =>
    \A s \in Slots :
      (Done(s) /\ EndedInError(s)) => cache = req[s].cache0

\* C21: for every request and every upstream outcome (ok, non-ok status,
\* network failure, body that is not JSON, timeout) the exported chain
\* handler of src/api/index.js resolves to a Response; it never rejects.
C21_NeverRejects ==
  Chain =>
    \A s \in Slots : Done(s) => req[s].ret.kind = "response"

\* slot s holds a pending upstream operation that the abort signal reaches
AbortablePcs == {"awaitFetch", "ApiFetchReturn", "CacheStore"}

C23_OneTruthfulLogLine ==
  \A s \in Slots :
    (Done(s) /\ req[s].logs # <<>>) =>
      /\ Len(req[s].logs) = 1
      /\ req[s].ret.kind = "response" => req[s].logs[1].status = req[s].ret.status

\* the calls of a finished execute that returned a Response
ResponseCalls(e) == {i \in 1..Len(e.calls) : IsResponse(e.calls[i].result)}

\* C24: MiddlewareChain.execute runs the registered middlewares in
\* registration order, passing each one the result of the previous one (the
\* request for the first); it stops at the first middleware that returns a
\* Response and returns that Response without running any later middleware;
\* with no short-circuit it returns the last middleware's result, and with
\* no middlewares it returns the request.
C24_ExecuteInOrder ==
  exec.pc \in {"loop", "returned"} =>
    LET n == Len(exec.calls)
    IN /\ n <= Len(exec.middlewares)
       /\ \A i \in 1..n :
            /\ exec.calls[i].name = exec.middlewares[i]
            /\ exec.calls[i].arg =
                 (IF i = 1 THEN exec.request ELSE exec.calls[i - 1].result)
            /\ exec.calls[i].result = Middleware(exec.middlewares[i], exec.calls[i].arg)
       /\ ResponseCalls(exec) \subseteq {n}
       /\ exec.pc = "loop" => ResponseCalls(exec) = {}
       /\ exec.pc = "returned" =>
            /\ exec.result = (IF n = 0 THEN exec.request ELSE exec.calls[n].result)
            /\ ResponseCalls(exec) = {} => n = Len(exec.middlewares)

\* a chain of three middlewares returned the Response of its second one,
\* which got the request as the first one had changed it; the third never ran
C24_Witness ==
  /\ exec.pc = "returned"
  /\ Len(exec.middlewares) = 3
  /\ Len(exec.calls) = 2
  /\ exec.calls[1].result # exec.request
  /\ exec.calls[2].arg = exec.calls[1].result
  /\ IsResponse(exec.result)
  /\ exec.result = exec.calls[2].result

\* the failures of ApiHandler.handle other than a bad path and a non-ok
\* upstream answer
OtherFailureStages == {"InvalidJson", "NetworkFailure", "UpstreamJson"}

\* C25: ApiHandler.handle (src/api/test.js) maps every failure to a
\* Response and never rejects: a missing or invalid `path` gives status
\* 400, an upstream non-ok answer gives the upstream's status, and any
\* other failure gives status 500.
C25_FailureBecomesResponse ==
  program = "test" =>
    \A s \in Slots :
      Done(s) =>
        /\ req[s].ret.kind = "response"
        /\ (PathFalsy(req[s].r) \/ ~ValidatorIsValidPath(req[s].r.path[1])) =>
             Answered(s, 400)
        /\ UpstreamNotOk(s) => Answered(s, req[s].upstream.status)
        /\ req[s].stage \in OtherFailureStages => Answered(s, 500)

\* C26: RequestCache.set removes an entry only when the insertion would
\* otherwise make the cache exceed maxSize: a set with a key that is
\* already present overwrites that key's value and removes no other key.
C26_OverwriteEvictsNothing ==
  [][Chain =>
      \A s \in Slots :
        (Stores(s) /\ KeyOf(req[s].r) \in CacheKeys(cache)) =>
          /\ CacheKeys(cache') = CacheKeys(cache)
          /\ RequestCacheGet(cache', KeyOf(req[s].r)) = JsonValue(req[s].ret.body)
   ]_vars

\* scheme, hostname and port of a URL
Origin(u) == <<u.scheme, u.host, u.port>>

\* C27: every upstream fetch of the chain handler goes to the origin
\* (scheme, hostname and port) of API_URL, so the bearer credential is
\* never sent over another scheme or to another port.
C27_SameOrigin ==
  Chain =>
    \A s \in Slots :
      \A f \in FetchesOf(s) :
        Origin(ParseURL(f.url)) = Origin(ParseURL(API_URL))

\* the texts that disclose the bearer credential
TokenTexts == {API_ACCESS_TOKEN, "Bearer " \o API_ACCESS_TOKEN}

\* C28: the bearer credential is only ever sent to the upstream API: it
\* never appears in a header or in the body of a response returned to the
\* client.
C28_TokenNotDisclosed ==
  \A s \in Slots :
    (Done(s) /\ req[s].ret.kind = "response") =>
      /\ \A h \in req[s].ret.headers : h[2] \notin TokenTexts
      /\ BodyText(req[s].ret.body) \notin TokenTexts

\* the chain variants that have a CorsHandler
CorsVariants == {"cors", "part4"}

\* the headers of a preflight response
PreflightHeaders ==
  { <<"Access-Control-Allow-Origin", "*">>,
    <<"Access-Control-Allow-Methods", "GET, POST, PUT, PATCH, DELETE, OPTIONS">>,
    <<"Access-Control-Allow-Headers", "Content-Type, Authorization">>,
    <<"Access-Control-Max-Age", "86400">> }

\* the handlers an OPTIONS request passes: those before CorsHandler, and it
PreflightPcs ==
  {"CorsMethodValidation", "CorsBodySize", "CorsCors",
   "Part4MethodValidation", "Part4Cors", "done"}

\* C29: in the chain variants that have a CorsHandler (part_000, part_004),
\* an OPTIONS request is answered with a preflight response (200, no body)
\* carrying Access-Control-Allow-Origin, -Methods, -Headers and -Max-Age,
\* without path validation, cache access, a log line or an upstream fetch,
\* whether or not the `path` parameter is there.
C29_PreflightFirst ==
  program \in CorsVariants =>
    \A s \in Slots :
      (req[s].pc # "idle" /\ req[s].r.method = "OPTIONS") =>
        /\ req[s].pc \in PreflightPcs
        /\ req[s].logs = <<>>
        /\ req[s].fetches = <<>>
        /\ cache = req[s].cache0
        /\ Done(s) =>
             /\ Answered(s, 200)
             /\ req[s].stage = "Options"
             /\ req[s].ret.body = <<>>
             /\ PreflightHeaders \subseteq req[s].ret.headers

\* an OPTIONS request without `path` got its preflight response from the
\* chain of part_004 while the cache held entries
C29_Witness ==
  \E s \in Slots :
    /\ program = "part4"
    /\ req[s].r.method = "OPTIONS" /\ PathMissing(req[s].r)
    /\ Answered(s, 200) /\ req[s].stage = "Options"
    /\ cache # <<>>

====
